---- MODULE Spec2Model ----
(***************************************************************************)
(* Model of the payroll scraping job engine (app/api/payroll/jobs): the    *)
(* process-wide job registry, the background task processJob with its      *)
(* approval wait and collection loop, the field normalizer, and the two    *)
(* HTTP routes that create and poll jobs.                                  *)
(*                                                                         *)
(* One action is one synchronous run of JavaScript: from the arrival of a  *)
(* network response (or the firing of a timer) up to the next await of a   *)
(* network request or timer.  Time is the value of Date.now() in ms.       *)
(***************************************************************************)
EXTENDS Integers, Sequences, FiniteSets, TLC

VARIABLES store, task, now, ticks, nextId, lastCall

vars == <<store, task, now, ticks, nextId, lastCall>>

(***************************************************************************)
(* Bounds of the model.                                                    *)
(***************************************************************************)
MaxJobs == 2
MaxTicks == 2

(***************************************************************************)
(* Optional values (a TypeScript field declared with ?).                   *)
(***************************************************************************)
None == <<>>
Some(v) == <<v>>
IsSome(o) == Len(o) = 1
Val(o) == o[1]

(***************************************************************************)
(* Raw JSON values of a portal record: a string (sequence of characters),  *)
(* null, or an integer number.                                             *)
(***************************************************************************)
Str(s) == [t |-> "str", s |-> s, n |-> 0]
Null == [t |-> "null", s |-> <<>>, n |-> 0]
Num(n) == [t |-> "num", s |-> <<>>, n |-> n]

DigitVal(c) ==
  CASE c = "0" -> 0 [] c = "1" -> 1 [] c = "2" -> 2 [] c = "3" -> 3 [] c = "4" -> 4
    [] c = "5" -> 5 [] c = "6" -> 6 [] c = "7" -> 7 [] c = "8" -> 8 [] c = "9" -> 9
    [] OTHER -> -1

IsDigit(c) == DigitVal(c) >= 0

RECURSIVE TrimLeft(_)
TrimLeft(s) == IF s # <<>> /\ Head(s) = " " THEN TrimLeft(Tail(s)) ELSE s

RECURSIVE TrimRight(_)
TrimRight(s) ==
  IF s # <<>> /\ s[Len(s)] = " " THEN TrimRight(SubSeq(s, 1, Len(s) - 1)) ELSE s

Trim(s) == TrimRight(TrimLeft(s))

IsNotComma(c) == c # ","

RECURSIVE DigitsValue(_)
DigitsValue(s) ==
  IF s = <<>> THEN 0 ELSE 10 * DigitsValue(SubSeq(s, 1, Len(s) - 1)) + DigitVal(s[Len(s)])

RECURSIVE Pow10(_)
Pow10(k) == IF k = 0 THEN 1 ELSE 10 * Pow10(k - 1)

AllDigits(s) == \A i \in 1..Len(s) : IsDigit(s[i])

DotPositions(s) == {i \in 1..Len(s) : s[i] = "."}

\* Number(text) for a decimal literal: ok = FALSE is NaN; the value is
\* sign * num / den.
ToNumber(s) ==
  LET neg == s # <<>> /\ Head(s) = "-"
      pos == s # <<>> /\ Head(s) = "+"
      body == IF neg \/ pos THEN Tail(s) ELSE s
      dots == DotPositions(body)
      d == IF dots = {} THEN Len(body) + 1 ELSE CHOOSE i \in dots : TRUE
      ip == SubSeq(body, 1, d - 1)
      fp == SubSeq(body, d + 1, Len(body))
      wellFormed == /\ Cardinality(dots) <= 1
                    /\ AllDigits(ip) /\ AllDigits(fp)
                    /\ Len(ip) + Len(fp) >= 1
      mag == DigitsValue(ip) * Pow10(Len(fp)) + DigitsValue(fp)
  IN IF wellFormed
       THEN [ok |-> TRUE, num |-> IF neg THEN 0 - mag ELSE mag, den |-> Pow10(Len(fp))]
       ELSE [ok |-> FALSE, num |-> 0, den |-> 1]

\* Math.round: the nearest integer, halves towards +infinity.
MathRound(num, den) == (2 * num + den) \div (2 * den)

parseIntMoney(val) ==
  IF val.t = "null" THEN 0
  ELSE IF val.t = "num" THEN val.n
  ELSE LET stripped == Trim(SelectSeq(val.s, IsNotComma))
           number == ToNumber(stripped)
       IN IF stripped = <<>> THEN 0
          ELSE IF number.ok THEN MathRound(number.num, number.den) ELSE 0

\* record[key] is undefined for a key the record does not have.
IsPresent(record, key) ==
  /\ key \in DOMAIN record
  /\ record[key].t # "null"
  /\ ~(record[key].t = "str" /\ record[key].s = <<>>)

\* firstPresent, were the last alias that holds a value to win.
RECURSIVE firstPresentTakesLast(_, _)
firstPresentTakesLast(record, keys) ==
  IF keys = <<>> THEN Null
  ELSE IF IsPresent(record, keys[Len(keys)]) THEN record[keys[Len(keys)]]
  ELSE firstPresentTakesLast(record, SubSeq(keys, 1, Len(keys) - 1))

RECURSIVE firstPresent(_, _)
firstPresent(record, keys) ==
  IF keys = <<>> THEN Null
  ELSE IF IsPresent(record, Head(keys)) THEN record[Head(keys)]
  ELSE firstPresent(record, Tail(keys))

GrossKeys == <<"bet01Txt", "bet01", "gross", "grossAmt", "totGross">>
DeductionKeys == <<"bet07Txt", "bet07", "deductions", "deduction", "totDeduction">>
NetKeys == <<"bet08Txt", "bet08", "net", "netAmt", "totNet", "payAmt">>

\* A row of the payload is a JSON object (obj = TRUE, with its fields) or
\* some other JSON value, which the filter drops.
NormalizeRow(year, month, row) ==
  [year |-> year,
   month |-> month,
   gross |-> parseIntMoney(firstPresent(row.fields, GrossKeys)),
   deductions |-> parseIntMoney(firstPresent(row.fields, DeductionKeys)),
   net |-> parseIntMoney(firstPresent(row.fields, NetKeys))]

RECURSIVE normalizeRows(_, _, _)
normalizeRows(year, month, rows) ==
  IF rows = <<>> THEN <<>>
  ELSE IF Head(rows).obj
    THEN <<NormalizeRow(year, month, Head(rows))>> \o normalizeRows(year, month, Tail(rows))
    ELSE normalizeRows(year, month, Tail(rows))

\* The reduce of computeSummary, one field of the accumulator at a time;
\* count grows by one per transaction.
RECURSIVE SumField(_, _)
SumField(transactions, field) ==
  IF transactions = <<>> THEN 0
  ELSE SumField(SubSeq(transactions, 1, Len(transactions) - 1), field)
         + transactions[Len(transactions)][field]

\* computeSummary, were the net total derived from the other two.
computeSummaryDerivesNet(transactions) ==
  [gross |-> SumField(transactions, "gross"),
   deductions |-> SumField(transactions, "deductions"),
   net |-> SumField(transactions, "gross") - SumField(transactions, "deductions"),
   count |-> Len(transactions)]

computeSummary(transactions) ==
  [gross |-> SumField(transactions, "gross"),
   deductions |-> SumField(transactions, "deductions"),
   net |-> SumField(transactions, "net"),
   count |-> Len(transactions)]

(***************************************************************************)
(* The start route's reading of the request body.  A value of the body is  *)
(* absent, a string, or an array of raw values.                            *)
(***************************************************************************)
Absent == [t |-> "absent", s |-> <<>>, a |-> <<>>]
Text(s) == [t |-> "str", s |-> s, a |-> <<>>]
Array(a) == [t |-> "arr", s |-> <<>>, a |-> a]

\* !value, for the values above: absent (undefined or null) and "".
Falsy(value) == value.t = "absent" \/ (value.t = "str" /\ value.s = <<>>)

\* Number(value) of a raw value or of a piece of text: ok = FALSE is NaN.
\* A null and a blank string give 0.  The inputs are integer literals.
NumberOf(val) ==
  IF val.t = "null" THEN [ok |-> TRUE, n |-> 0]
  ELSE IF val.t = "num" THEN [ok |-> TRUE, n |-> val.n]
  ELSE LET text == Trim(val.s)
           number == ToNumber(text)
       IN IF text = <<>> THEN [ok |-> TRUE, n |-> 0]
          ELSE [ok |-> number.ok, n |-> number.num \div number.den]

\* text.split(sep)
RECURSIVE Split(_, _)
Split(s, sep) ==
  LET hits == {i \in 1..Len(s) : s[i] = sep}
      first == CHOOSE i \in hits : \A k \in hits : i <= k
  IN IF hits = {} THEN <<s>>
     ELSE <<SubSeq(s, 1, first - 1)>> \o Split(SubSeq(s, first + 1, Len(s)), sep)

\* The loop of parseRangeInput from aRaw to bRaw, upwards or downwards.
RangeOf(a, b) ==
  IF a <= b THEN [i \in 1..(b - a + 1) |-> a + i - 1]
  ELSE [i \in 1..(a - b + 1) |-> a - i + 1]

\* The flatMap callback of parseRangeInput for one token.
TokenValues(token) ==
  LET part == Trim(token)
      pieces == Split(part, "-")
      aRaw == NumberOf(Str(pieces[1]))
      bRaw == NumberOf(Str(pieces[2]))
      num == NumberOf(Str(part))
  IN IF part = <<>> THEN <<>>
     ELSE IF Len(pieces) > 1
       THEN IF aRaw.ok /\ bRaw.ok THEN RangeOf(aRaw.n, bRaw.n) ELSE <<>>
     ELSE IF num.ok THEN <<num.n>> ELSE <<>>

RECURSIVE FlatMapTokens(_)
FlatMapTokens(tokens) ==
  IF tokens = <<>> THEN <<>> ELSE TokenValues(Head(tokens)) \o FlatMapTokens(Tail(tokens))

RECURSIVE FiniteNumbers(_)
FiniteNumbers(values) ==
  IF values = <<>> THEN <<>>
  ELSE (IF NumberOf(Head(values)).ok THEN <<NumberOf(Head(values)).n>> ELSE <<>>)
         \o FiniteNumbers(Tail(values))

parseRangeInput(input) ==
  IF Falsy(input) THEN <<>>
  ELSE IF input.t = "arr" THEN FiniteNumbers(input.a)
  ELSE FlatMapTokens(Split(input.s, ","))

\* [...new Set(list)].sort((a, b) => a - b)
RECURSIVE SortedSeq(_)
SortedSeq(S) ==
  IF S = {} THEN <<>>
  ELSE LET least == CHOOSE x \in S : \A y \in S : x <= y
       IN <<least>> \o SortedSeq(S \ {least})

DedupSorted(list) == SortedSeq({list[i] : i \in 1..Len(list)})

DefaultYears == Text(<<"2", "0", "2", "3", "-", "2", "0", "2", "5">>)
AllMonths == Text(<<"1", "-", "1", "2">>)

(***************************************************************************)
(* Program constants.                                                      *)
(***************************************************************************)
DEFAULT_WAIT_SECONDS == 60
DEFAULT_POLL_INTERVAL == 2
DefaultMaxAgeMs == 1000 * 60 * 30
PeriodSleepMs == 200
MinPollSleepMs == 500
HttpOk == 200
HttpBadRequest == 400
HttpNotFound == 404
FallbackHeaderName == "X-CSRF-TOKEN"

(***************************************************************************)
(* Inputs of the model: the requests, the portal's responses, the steps of *)
(* the clock.                                                              *)
(***************************************************************************)
JobIds == 1..MaxJobs

YearLists == {<<2023>>, <<2023, 2024>>}
MonthLists == {<<1>>, <<1, 2>>}
WaitChoices == {0, 2 * DEFAULT_WAIT_SECONDS}
PollChoices == {DEFAULT_POLL_INTERVAL}

ScrapeParams ==
  [years : YearLists, months : MonthLists,
   waitAuthSeconds : WaitChoices, pollIntervalSeconds : PollChoices]

Tokens == {"tokA"}
HeaderNames == {"X-XSRF"}

NetErr == [ok |-> FALSE, token |-> None, headerName |-> None]

\* The outcome of a GET or POST whose body is scanned for the _csrf meta
\* tags: a transport error, or a page with or without the two tags.
PageResponses ==
  {NetErr}
    \cup {[ok |-> TRUE, token |-> None, headerName |-> None]}
    \cup {[ok |-> TRUE, token |-> Some(tok), headerName |-> h] :
            tok \in Tokens, h \in {None} \cup {Some(n) : n \in HeaderNames}}

\* The outcome of the GET of fetchLatestCsrf: as above, or a page with a
\* token the portal has issued anew.
RefreshResponses ==
  PageResponses \cup {[ok |-> TRUE, token |-> Some("tokB"), headerName |-> None]}

LoginProcResponses == {"ok", "login_failure", "neterr"}

RowPlain ==
  [obj |-> TRUE,
   fields |-> [bet01Txt |-> Str(<<"1", ",", "0", "0", "0">>),
               bet07Txt |-> Str(<<"2", "0", "0">>),
               bet08Txt |-> Str(<<"8", "0", "0">>)]]

RowAliases ==
  [obj |-> TRUE,
   fields |-> [bet01Txt |-> Str(<<>>),
               gross |-> Num(50),
               bet07 |-> Str(<<" ", "5", ".", "5">>),
               net |-> Str(<<"-", "5", "0", "0">>),
               netAmt |-> Num(45)]]

RowNotObject == [obj |-> FALSE, fields |-> [bet01 |-> Null]]

Payloads == {<<RowPlain, RowNotObject, RowAliases>>}

\* Raw records that hold, under each alias of one money field, nothing, a
\* null, an empty string, or the position of the alias in the field's list
\* as a string.
Holdings == {"absent", "null", "empty", "text"}

PositionText(i) == <<<<"1", "2", "3", "4", "5", "6">>[i]>>

RowOf(keys, holding) ==
  [obj |-> TRUE,
   fields |-> [key \in {keys[i] : i \in {x \in DOMAIN keys : holding[x] # "absent"}} |->
                 LET i == CHOOSE x \in DOMAIN keys : keys[x] = key
                 IN IF holding[i] = "null" THEN Null
                    ELSE IF holding[i] = "empty" THEN Str(<<>>)
                    ELSE Str(PositionText(i))]]

AliasRows ==
  UNION {{RowOf(keys, holding) : holding \in [DOMAIN keys -> Holdings]} :
           keys \in {GrossKeys, DeductionKeys, NetKeys}}

\* The payloads handed to normalizeRows on its own.
RawPayloads == Payloads \cup {<<row>> : row \in AliasRows}

\* The outcome of a POST to the payroll-detail endpoint.
PostResponses ==
  {[kind |-> "neterr", rows |-> <<>>],
   [kind |-> "html", rows |-> <<>>],
   [kind |-> "badjson", rows |-> <<>>],
   [kind |-> "json", rows |-> <<>>]}
    \cup {[kind |-> "json", rows |-> p] : p \in Payloads}

TickSteps == {60 * 1000, 29 * 60 * 1000, 31 * 60 * 1000}
MaxAgeChoices == {DefaultMaxAgeMs, 0, 60 * 1000}

\* Bodies of POST /api/payroll/start.  json = FALSE is a body request.json()
\* cannot parse.
GoodBody == [json |-> TRUE, username |-> Text(<<"u">>), password |-> Text(<<"p">>),
             years |-> Absent]

Bodies ==
  {GoodBody,
   [GoodBody EXCEPT !.years = Text(<<"2", "0", "2", "4">>)],
   [GoodBody EXCEPT !.years = Array(<<Num(2024), Str(<<"x">>), Num(2023), Num(2024)>>)],
   [GoodBody EXCEPT !.json = FALSE],
   [GoodBody EXCEPT !.username = Absent],
   [GoodBody EXCEPT !.username = Text(<<>>)],
   [GoodBody EXCEPT !.password = Absent],
   [GoodBody EXCEPT !.years = Text(<<>>)],
   [GoodBody EXCEPT !.years = Text(<<"x", ",", " ">>)],
   [GoodBody EXCEPT !.years = Array(<<Str(<<"x">>)>>)]}

(***************************************************************************)
(* Error messages and progress messages, as tuples of their parts.         *)
(***************************************************************************)
ErrNet == <<"network error">>
ErrNoLoginCsrf == <<"no _csrf token on the login page">>
ErrLoginFailed == <<"login failed">>
ErrNoCsrfAfterApproval == <<"Unable to extract _csrf token after approval.">>
ErrHtml == <<"expected JSON but got HTML">>
ErrParse == <<"JSON.parse failed">>
\* The timeout error, were it to leave out what the last probe cycle saw.
ErrTimeoutWithoutStatus(lastError) ==
  <<"Mobile approval timed out. Last status: ", <<"no poll yet">>>>

ErrTimeout(lastError) == <<"Mobile approval timed out. Last status: ", lastError>>
NoPollYet == <<"no poll yet">>
PollStatus(init, notice, success) == <<"poll", init, notice, success>>

(***************************************************************************)
(* The job registry.                                                       *)
(***************************************************************************)
\* Object.assign(job, patch): the fields of the patch replace the job's.
Merge(job, patch) == patch @@ job

\* updateJob, were it to insert a record for an id it does not find.
updateJobUpsert(st, jobId, patch, t) ==
  LET blank == [id |-> jobId, status |-> "pending", message |-> <<"preparing">>,
                totalMonths |-> 0, processedMonths |-> 0, transactions |-> <<>>,
                summary |-> None, error |-> None, updatedAt |-> t]
      job == IF jobId \in DOMAIN st THEN st[jobId] ELSE blank
  IN [k \in DOMAIN st \cup {jobId} |->
        IF k = jobId THEN [Merge(job, patch) EXCEPT !.updatedAt = t] ELSE st[k]]

\* updateJob, were the timestamp of every record in the registry refreshed.
updateJobTouchesAll(st, jobId, patch, t) ==
  IF jobId \notin DOMAIN st THEN st
  ELSE [k \in DOMAIN st |->
          IF k = jobId THEN [Merge(st[jobId], patch) EXCEPT !.updatedAt = t]
          ELSE [st[k] EXCEPT !.updatedAt = t]]

updateJob(st, jobId, patch, t) ==
  IF jobId \notin DOMAIN st THEN st
  ELSE [st EXCEPT ![jobId] = [Merge(st[jobId], patch) EXCEPT !.updatedAt = t]]

\* toSnapshot, were it to copy the transactions in every status.
toSnapshotWithRows(job) ==
  [id |-> job.id,
   status |-> job.status,
   message |-> job.message,
   totalMonths |-> job.totalMonths,
   processedMonths |-> job.processedMonths,
   summary |-> job.summary,
   error |-> job.error,
   transactions |-> Some(job.transactions)]

toSnapshot(job) ==
  [id |-> job.id,
   status |-> job.status,
   message |-> job.message,
   totalMonths |-> job.totalMonths,
   processedMonths |-> job.processedMonths,
   summary |-> job.summary,
   error |-> job.error,
   transactions |-> IF job.status = "completed" THEN Some(job.transactions) ELSE None]

getPayrollJob(st, jobId) ==
  IF jobId \in DOMAIN st THEN Some(toSnapshot(st[jobId])) ELSE None

\* The test of cleanupOldJobs, were it to compare with >=.
IsStaleInclusive(job, t, maxAgeMs) == t - job.updatedAt >= maxAgeMs

IsStale(job, t, maxAgeMs) == t - job.updatedAt > maxAgeMs

\* cleanupOldJobs, were it to spare the jobs whose task is still running.
cleanupOldJobsSparesRunning(st, t, maxAgeMs) ==
  [k \in {j \in DOMAIN st : ~IsStale(st[j], t, maxAgeMs)
                              \/ st[j].status \notin {"completed", "error"}} |-> st[k]]

cleanupOldJobs(st, t, maxAgeMs) ==
  [k \in {j \in DOMAIN st : ~IsStale(st[j], t, maxAgeMs)} |-> st[k]]

TotalMonths(params) == Len(params.years) * Len(params.months)

\* The initial record, were it to start with a zero summary.
InitialStateZeroSummary(jobId, params, t) ==
  [id |-> jobId,
   status |-> "pending",
   message |-> <<"preparing">>,
   totalMonths |-> TotalMonths(params),
   processedMonths |-> 0,
   transactions |-> <<>>,
   summary |-> Some(computeSummary(<<>>)),
   error |-> None,
   updatedAt |-> t]

\* createdAt, which is written here and never read or written again, is left
\* out of the record.
InitialState(jobId, params, t) ==
  [id |-> jobId,
   status |-> "pending",
   message |-> <<"preparing">>,
   totalMonths |-> TotalMonths(params),
   processedMonths |-> 0,
   transactions |-> <<>>,
   summary |-> None,
   error |-> None,
   updatedAt |-> t]

\* store.set, were getJobStore to hand out a new Map on every call.
StoreSetFreshMap(st, jobId, state) == [k \in {jobId} |-> state]

StoreSet(st, jobId, state) ==
  [k \in DOMAIN st \cup {jobId} |-> IF k = jobId THEN state ELSE st[k]]

(***************************************************************************)
(* The patches processJob, waitForFido and fetchLatestCsrf hand to         *)
(* updateJob.                                                              *)
(***************************************************************************)
ConnectingPatch == [status |-> "pending", message |-> <<"connecting">>]

\* The patch after the login page, were it to leave the status alone.
AuthWaitPatchKeepsStatus == [message |-> <<"submitted">>]

AuthWaitPatch == [status |-> "auth_wait", message |-> <<"submitted">>]

ApprovedPatch == [status |-> "fetching", message |-> <<"approved">>]

RefreshedPatch == [message |-> <<"refreshed">>]

ProgressPatch(processed, totalMonths, year, month) ==
  [processedMonths |-> processed,
   totalMonths |-> totalMonths,
   message |-> <<"progress", processed, totalMonths, year, month>>]

\* The patch of a failed period, were it to fail the job.
PeriodErrorPatchFatal(processed, totalMonths, year, month, message) ==
  [status |-> "error",
   message |-> <<"period error", processed, totalMonths, year, month, message>>]

\* The patch of a failed period, were it to record the error detail.
PeriodErrorPatchWithDetail(processed, totalMonths, year, month, message) ==
  [message |-> <<"period error", processed, totalMonths, year, month, message>>,
   error |-> Some(message)]

PeriodErrorPatch(processed, totalMonths, year, month, message) ==
  [message |-> <<"period error", processed, totalMonths, year, month, message>>]

\* The final patch, were it to report the number of rows as the progress.
CompletedPatchCountsRows(all, totalMonths) ==
  [status |-> "completed",
   message |-> <<"done", computeSummary(all).count>>,
   transactions |-> all,
   summary |-> Some(computeSummary(all)),
   processedMonths |-> Len(all),
   totalMonths |-> totalMonths]

CompletedPatch(all, totalMonths) ==
  [status |-> "completed",
   message |-> <<"done", computeSummary(all).count>>,
   transactions |-> all,
   summary |-> Some(computeSummary(all)),
   processedMonths |-> totalMonths,
   totalMonths |-> totalMonths]

FailedPatch(message) ==
  [status |-> "error", message |-> <<"failed", message>>, error |-> Some(message)]


(***************************************************************************)
(* The background task of a job: processJob's position and locals.         *)
(***************************************************************************)
NoParams ==
  [years |-> <<>>, months |-> <<>>, waitAuthSeconds |-> 0, pollIntervalSeconds |-> 0]

\* No response: resp and retryResp of processJob are not in scope.
NoResp == [kind |-> "none", rows |-> <<>>]

\* resp is the response to the last POST of the period under way; probe is
\* the probe response in which waitForFido found the token, with the
\* endpoint it came from and whether it came at or after the deadline, until
\* the first POST is answered.  sent is the
\* POST to the payroll-detail endpoint that is awaited; refreshed is what
\* fetchLatestCsrf returned last, until the next first POST is answered.
IdleTask ==
  [pc |-> "idle", params |-> NoParams, deadline |-> 0, lastError |-> NoPollYet,
   csrfToken |-> None, headerName |-> None, all |-> <<>>, processed |-> 0,
   wakeAt |-> 0, resp |-> NoResp, probe |-> None, sent |-> None, refreshed |-> None]

\* processJob has returned: its locals are gone.
Finished(tk) == [IdleTask EXCEPT !.pc = "done", !.params = tk.params]

\* The pair of the registry and one task's state that a run of code leaves.
Out(st, tk) == [st |-> st, tk |-> tk]

YearOf(params, k) == params.years[((k - 1) \div Len(params.months)) + 1]
MonthOf(params, k) == params.months[((k - 1) % Len(params.months)) + 1]

\* buildHeaders and buildBody: the header that carries the token, the _csrf
\* field of the form, and the period asked for.
BuildRequest(csrf, headerName, year, month) ==
  [headerName |-> headerName, headerValue |-> csrf, csrfField |-> csrf,
   year |-> year, month |-> month]

\* The catch block of processJob, were the task to go on where it was.
FailKeepsRunning(st, tk, jobId, message, t) ==
  Out(updateJob(st, jobId, FailedPatch(message), t), tk)

\* The catch block of processJob.
Fail(st, tk, jobId, message, t) ==
  Out(updateJob(st, jobId, FailedPatch(message), t), Finished(tk))

\* The head of the loops, were the progress to count the periods finished.
NextPeriodReportsLate(st, tk, jobId, t) ==
  LET totalMonths == TotalMonths(tk.params)
      processed == tk.processed + 1
  IN IF tk.processed < totalMonths
       THEN Out(updateJob(st, jobId,
                          ProgressPatch(tk.processed, totalMonths,
                                        YearOf(tk.params, processed),
                                        MonthOf(tk.params, processed)), t),
                [tk EXCEPT !.processed = processed, !.pc = "post",
                           !.sent = Some(BuildRequest(Val(tk.csrfToken), Val(tk.headerName),
                                                      YearOf(tk.params, processed),
                                                      MonthOf(tk.params, processed)))])
       ELSE Out(updateJob(st, jobId, CompletedPatch(tk.all, totalMonths), t),
                Finished(tk))

\* The head of the nested loops over years and months, and the code after
\* them: the next period's progress update and POST, or the completion.
NextPeriod(st, tk, jobId, t) ==
  LET totalMonths == TotalMonths(tk.params)
      processed == tk.processed + 1
  IN IF tk.processed < totalMonths
       THEN Out(updateJob(st, jobId,
                          ProgressPatch(processed, totalMonths,
                                        YearOf(tk.params, processed),
                                        MonthOf(tk.params, processed)), t),
                [tk EXCEPT !.processed = processed, !.pc = "post",
                           !.sent = Some(BuildRequest(Val(tk.csrfToken), Val(tk.headerName),
                                                      YearOf(tk.params, processed),
                                                      MonthOf(tk.params, processed)))])
       ELSE Out(updateJob(st, jobId, CompletedPatch(tk.all, totalMonths), t),
                Finished(tk))

\* The catch block of one period, were it to leave the loops.
PeriodFailedLeavesLoop(st, tk, jobId, message, t) ==
  LET totalMonths == TotalMonths(tk.params)
  IN NextPeriod(updateJob(st, jobId,
                          PeriodErrorPatch(tk.processed, totalMonths,
                                           YearOf(tk.params, tk.processed),
                                           MonthOf(tk.params, tk.processed), message), t),
                [tk EXCEPT !.processed = totalMonths], jobId, t)

\* The catch block of one period, then sleep(200).
PeriodFailed(st, tk, jobId, message, t) ==
  LET totalMonths == TotalMonths(tk.params)
  IN Out(updateJob(st, jobId,
                   PeriodErrorPatch(tk.processed, totalMonths,
                                    YearOf(tk.params, tk.processed),
                                    MonthOf(tk.params, tk.processed), message), t),
         [tk EXCEPT !.pc = "period_sleep", !.wakeAt = t + PeriodSleepMs])

\* The end of a period, were it to publish the rows collected so far.
PeriodParsedPublishes(st, tk, jobId, resp, t) ==
  LET all == tk.all \o normalizeRows(YearOf(tk.params, tk.processed),
                                    MonthOf(tk.params, tk.processed), resp.rows)
  IN IF resp.kind = "json"
       THEN Out(updateJob(st, jobId, [transactions |-> all], t),
                [tk EXCEPT !.all = all, !.pc = "period_sleep",
                           !.wakeAt = t + PeriodSleepMs])
       ELSE PeriodFailed(st, tk, jobId, ErrParse, t)

\* parseJson, normalizeRows and all.push for one period, then sleep(200).
PeriodParsed(st, tk, jobId, resp, t) ==
  IF resp.kind = "json"
    THEN Out(st, [tk EXCEPT !.all = tk.all \o normalizeRows(YearOf(tk.params, tk.processed),
                                                        MonthOf(tk.params, tk.processed),
                                                        resp.rows),
                            !.pc = "period_sleep", !.wakeAt = t + PeriodSleepMs])
    ELSE PeriodFailed(st, tk, jobId, ErrParse, t)

PollSleepMs(params) ==
  IF params.pollIntervalSeconds * 1000 > MinPollSleepMs
    THEN params.pollIntervalSeconds * 1000 ELSE MinPollSleepMs

\* The test of the while loop, were a cycle to start at the deadline itself.
PollLoopHeadInclusive(st, tk, jobId, t) ==
  IF t <= tk.deadline
    THEN Out(st, [tk EXCEPT !.pc = "probe_init"])
    ELSE Fail(st, tk, jobId, ErrTimeout(tk.lastError), t)

\* waitForFido: the test of the while loop, then the first probe of a cycle
\* or the timeout.
PollLoopHead(st, tk, jobId, t) ==
  IF t < tk.deadline
    THEN Out(st, [tk EXCEPT !.pc = "probe_init"])
    ELSE Fail(st, tk, jobId, ErrTimeout(tk.lastError), t)

\* waitForFido's return, were the header name always the fallback.
TokenFoundAlwaysFallback(st, tk, jobId, resp, t) ==
  NextPeriod(updateJob(st, jobId, ApprovedPatch, t),
             [tk EXCEPT !.csrfToken = resp.token,
                        !.headerName = Some(FallbackHeaderName),
                        !.deadline = 0, !.lastError = NoPollYet,
                        !.all = <<>>, !.processed = 0,
                        !.probe = Some([endpoint |-> tk.pc, page |-> resp,
                                        late |-> t >= tk.deadline])],
             jobId, t)

\* waitForFido: a probe found a token and waitForFido returns (its locals are
\* gone); processJob goes on to the first period.
TokenFound(st, tk, jobId, resp, t) ==
  NextPeriod(updateJob(st, jobId, ApprovedPatch, t),
             [tk EXCEPT !.csrfToken = resp.token,
                        !.headerName = IF IsSome(resp.headerName) THEN resp.headerName
                                       ELSE Some(FallbackHeaderName),
                        !.deadline = 0, !.lastError = NoPollYet,
                        !.all = <<>>, !.processed = 0,
                        !.probe = Some([endpoint |-> tk.pc, page |-> resp,
                                        late |-> t >= tk.deadline])],
             jobId, t)

\* The end of a probe cycle, were the next cycle to start without a sleep.
CycleEndedWithoutSleep(st, tk, lastError, t) ==
  Out(st, [tk EXCEPT !.lastError = lastError, !.pc = "poll_sleep", !.wakeAt = t])

\* waitForFido: the end of a probe cycle without a token, then the sleep.
CycleEnded(st, tk, lastError, t) ==
  Out(st, [tk EXCEPT !.lastError = lastError, !.pc = "poll_sleep",
                     !.wakeAt = t + PollSleepMs(tk.params)])

Commit(jobId, out) ==
  /\ store' = out.st
  /\ task' = [task EXCEPT ![jobId] = out.tk]

\* What the last call of a route or of startPayrollJob returned: code is the
\* HTTP status of a route's response (0 for a direct call of the function).
\* request is the body of a POST to the start route.
NoCall ==
  [op |-> "none", jobId |-> 0, found |-> FALSE, code |-> 0, result |-> None,
   request |-> None]

Init ==
  /\ store = [k \in {} |-> 0]
  /\ task = [j \in JobIds |-> IdleTask]
  /\ now = 0
  /\ ticks = 0
  /\ nextId = 1
  /\ lastCall = NoCall

(***************************************************************************)
(* Actions.                                                                *)
(***************************************************************************)
\* startPayrollJob, with the run of processJob up to its first await; code
\* and request are those of the route that called it, if one did.
CreateJob(params, code, request) ==
  /\ nextId <= MaxJobs
  /\ LET jobId == nextId
         st1 == StoreSet(store, jobId, InitialState(jobId, params, now))
         st2 == updateJob(st1, jobId, ConnectingPatch, now)
     IN /\ store' = st2
        /\ task' = [task EXCEPT ![jobId] = [IdleTask EXCEPT !.pc = "login_get",
                                                            !.params = params]]
        /\ lastCall' = [op |-> "start", jobId |-> jobId, found |-> TRUE, code |-> code,
                        result |-> Some(toSnapshot(st2[jobId])), request |-> request]
  /\ nextId' = nextId + 1
  /\ UNCHANGED <<now, ticks>>

\* A direct call of startPayrollJob.
StartPayrollJob(params) == CreateJob(params, 0, None)

\* POST /api/payroll/start: the year list the body resolves to.
YearList(body) ==
  parseRangeInput(IF body.years.t = "absent" THEN DefaultYears ELSE body.years)

\* POST /api/payroll/start: the three early returns with status 400.
RouteRejects(body) ==
  \/ ~body.json
  \/ Falsy(body.username) \/ Falsy(body.password)
  \/ YearList(body) = <<>>

RouteParams(body) ==
  [years |-> DedupSorted(YearList(body)),
   months |-> DedupSorted(parseRangeInput(AllMonths)),
   waitAuthSeconds |-> DEFAULT_WAIT_SECONDS,
   pollIntervalSeconds |-> DEFAULT_POLL_INTERVAL]

\* The start route, were it to create the job before it looks at the years.
StartRouteChecksYearsLate(body) ==
  IF ~body.json \/ Falsy(body.username) \/ Falsy(body.password)
    THEN /\ lastCall' = [op |-> "start", jobId |-> 0, found |-> FALSE,
                         code |-> HttpBadRequest, result |-> None, request |-> Some(body)]
         /\ UNCHANGED <<store, task, now, ticks, nextId>>
    ELSE CreateJob(RouteParams(body),
                   IF YearList(body) = <<>> THEN HttpBadRequest ELSE HttpOk, Some(body))

\* POST /api/payroll/start
StartRoute(body) ==
  IF RouteRejects(body)
    THEN /\ lastCall' = [op |-> "start", jobId |-> 0, found |-> FALSE,
                         code |-> HttpBadRequest, result |-> None, request |-> Some(body)]
         /\ UNCHANGED <<store, task, now, ticks, nextId>>
    ELSE CreateJob(RouteParams(body), HttpOk, Some(body))

\* processJob: the login page has arrived (or the GET has failed).
LoginPageResp(j, env) ==
  /\ task[j].pc = "login_get"
  /\ \E resp \in env.page :
       Commit(j, IF ~resp.ok THEN Fail(store, task[j], j, ErrNet, now)
                 ELSE IF ~IsSome(resp.token)
                   THEN Fail(store, task[j], j, ErrNoLoginCsrf, now)
                 ELSE Out(updateJob(store, j, AuthWaitPatch, now),
                          [task[j] EXCEPT !.pc = "login_post"]))
  /\ lastCall' = NoCall
  /\ UNCHANGED <<now, ticks, nextId>>

\* postLoginProcess, were the credentials to be submitted again after a
\* refusal.
LoginProcRespRetriesAfterFailure(j, env) ==
  /\ task[j].pc = "login_post"
  /\ \E resp \in env.loginProc :
       Commit(j, IF resp = "neterr" THEN Fail(store, task[j], j, ErrNet, now)
                 ELSE IF resp = "login_failure"
                   THEN Out(updateJob(store, j, FailedPatch(ErrLoginFailed), now), task[j])
                 ELSE PollLoopHead(store,
                                   [task[j] EXCEPT
                                      !.deadline = now + task[j].params.waitAuthSeconds * 1000,
                                      !.lastError = NoPollYet],
                                   j, now))
  /\ lastCall' = NoCall
  /\ UNCHANGED <<now, ticks, nextId>>

\* postLoginProcess: the response to the credentials, then the start of
\* waitForFido.
LoginProcResp(j, env) ==
  /\ task[j].pc = "login_post"
  /\ \E resp \in env.loginProc :
       Commit(j, IF resp = "neterr" THEN Fail(store, task[j], j, ErrNet, now)
                 ELSE IF resp = "login_failure"
                   THEN Fail(store, task[j], j, ErrLoginFailed, now)
                 ELSE PollLoopHead(store,
                                   [task[j] EXCEPT
                                      !.deadline = now + task[j].params.waitAuthSeconds * 1000,
                                      !.lastError = NoPollYet],
                                   j, now))
  /\ lastCall' = NoCall
  /\ UNCHANGED <<now, ticks, nextId>>

\* A probe, were its transport error to reach the catch block of processJob.
ProbeRespThrowsOnNetErr(j, env, pc, next) ==
  /\ task[j].pc = pc
  /\ \E resp \in env.page :
       Commit(j, IF ~resp.ok THEN Fail(store, task[j], j, ErrNet, now)
                 ELSE IF IsSome(resp.token) THEN TokenFound(store, task[j], j, resp, now)
                 ELSE IF next = "poll_sleep"
                   THEN CycleEnded(store, task[j], PollStatus(HttpOk, HttpOk, HttpOk), now)
                 ELSE Out(store, [task[j] EXCEPT !.pc = next]))
  /\ lastCall' = NoCall
  /\ UNCHANGED <<now, ticks, nextId>>

\* waitForFido: the response of one probe.  next is the position after a
\* response without a token.
ProbeResp(j, env, pc, next) ==
  /\ task[j].pc = pc
  /\ \E resp \in env.page :
       Commit(j, IF ~resp.ok THEN CycleEnded(store, task[j], ErrNet, now)
                 ELSE IF IsSome(resp.token) THEN TokenFound(store, task[j], j, resp, now)
                 ELSE IF next = "poll_sleep"
                   THEN CycleEnded(store, task[j], PollStatus(HttpOk, HttpOk, HttpOk), now)
                 ELSE Out(store, [task[j] EXCEPT !.pc = next]))
  /\ lastCall' = NoCall
  /\ UNCHANGED <<now, ticks, nextId>>

ProbeInitResp(j, env) == ProbeResp(j, env, "probe_init", "probe_notice")

ProbeNoticeResp(j, env) == ProbeResp(j, env, "probe_notice", "probe_success")

ProbeSuccessResp(j, env) == ProbeResp(j, env, "probe_success", "poll_sleep")

\* waitForFido: the sleep between two probe cycles is over.
PollSleepDone(j) ==
  /\ task[j].pc = "poll_sleep"
  /\ now >= task[j].wakeAt
  /\ Commit(j, PollLoopHead(store, [task[j] EXCEPT !.wakeAt = 0], j, now))
  /\ lastCall' = NoCall
  /\ UNCHANGED <<now, ticks, nextId>>

\* The first POST, were a body that does not parse to start the recovery too.
PostRespRefreshesOnBadJson(j, env) ==
  /\ task[j].pc = "post"
  /\ \E resp \in env.post :
       LET tk == [task[j] EXCEPT !.resp = resp, !.probe = None, !.sent = None,
                                 !.refreshed = None]
       IN Commit(j, IF resp.kind = "neterr" THEN PeriodFailed(store, tk, j, ErrNet, now)
                    ELSE IF resp.kind \in {"html", "badjson"}
                      THEN Out(store, [tk EXCEPT !.pc = "refresh"])
                    ELSE PeriodParsed(store, tk, j, resp, now))
  /\ lastCall' = NoCall
  /\ UNCHANGED <<now, ticks, nextId>>

\* processJob: the response to the first POST of a period.
PostResp(j, env) ==
  /\ task[j].pc = "post"
  /\ \E resp \in env.post :
       LET tk == [task[j] EXCEPT !.resp = resp, !.probe = None, !.sent = None,
                                 !.refreshed = None]
       IN Commit(j, IF resp.kind = "neterr" THEN PeriodFailed(store, tk, j, ErrNet, now)
                    ELSE IF resp.kind = "html" THEN Out(store, [tk EXCEPT !.pc = "refresh"])
                    ELSE PeriodParsed(store, tk, j, resp, now))
  /\ lastCall' = NoCall
  /\ UNCHANGED <<now, ticks, nextId>>

\* fetchLatestCsrf: what it returns for a page that carries a token.
Refreshed(resp) ==
  [token |-> Val(resp.token),
   headerName |-> IF IsSome(resp.headerName) THEN Val(resp.headerName)
                  ELSE FallbackHeaderName]

\* fetchLatestCsrf, were its throw to reach the catch block of processJob.
RefreshRespFailsJob(j, env) ==
  /\ task[j].pc = "refresh"
  /\ \E resp \in env.refresh :
       Commit(j, IF ~resp.ok THEN PeriodFailed(store, task[j], j, ErrNet, now)
                 ELSE IF ~IsSome(resp.token)
                   THEN Fail(store, task[j], j, ErrNoCsrfAfterApproval, now)
                 ELSE Out(updateJob(store, j, RefreshedPatch, now),
                          [task[j] EXCEPT
                             !.pc = "retry",
                             !.refreshed = Some(Refreshed(resp)),
                             !.sent = Some(BuildRequest(Refreshed(resp).token,
                                                        Refreshed(resp).headerName,
                                                        YearOf(task[j].params, task[j].processed),
                                                        MonthOf(task[j].params, task[j].processed)))]))
  /\ lastCall' = NoCall
  /\ UNCHANGED <<now, ticks, nextId>>

\* fetchLatestCsrf, were the token it returns to replace the one of the
\* approval wait.
RefreshRespKeepsNewToken(j, env) ==
  /\ task[j].pc = "refresh"
  /\ \E resp \in env.refresh :
       Commit(j, IF ~resp.ok THEN PeriodFailed(store, task[j], j, ErrNet, now)
                 ELSE IF ~IsSome(resp.token)
                   THEN PeriodFailed(store, task[j], j, ErrNoCsrfAfterApproval, now)
                 ELSE Out(updateJob(store, j, RefreshedPatch, now),
                          [task[j] EXCEPT
                             !.pc = "retry",
                             !.csrfToken = Some(Refreshed(resp).token),
                             !.headerName = Some(Refreshed(resp).headerName),
                             !.refreshed = Some(Refreshed(resp)),
                             !.sent = Some(BuildRequest(Refreshed(resp).token,
                                                        Refreshed(resp).headerName,
                                                        YearOf(task[j].params, task[j].processed),
                                                        MonthOf(task[j].params, task[j].processed)))]))
  /\ lastCall' = NoCall
  /\ UNCHANGED <<now, ticks, nextId>>

\* fetchLatestCsrf: the init page has arrived; then the retry is posted.
RefreshResp(j, env) ==
  /\ task[j].pc = "refresh"
  /\ \E resp \in env.refresh :
       Commit(j, IF ~resp.ok THEN PeriodFailed(store, task[j], j, ErrNet, now)
                 ELSE IF ~IsSome(resp.token)
                   THEN PeriodFailed(store, task[j], j, ErrNoCsrfAfterApproval, now)
                 ELSE Out(updateJob(store, j, RefreshedPatch, now),
                          [task[j] EXCEPT
                             !.pc = "retry",
                             !.refreshed = Some(Refreshed(resp)),
                             !.sent = Some(BuildRequest(Refreshed(resp).token,
                                                        Refreshed(resp).headerName,
                                                        YearOf(task[j].params, task[j].processed),
                                                        MonthOf(task[j].params, task[j].processed)))]))
  /\ lastCall' = NoCall
  /\ UNCHANGED <<now, ticks, nextId>>

\* The retry, were the body of the first response parsed in its place.
RetryRespParsesFirstBody(j, env) ==
  /\ task[j].pc = "retry"
  /\ \E resp \in env.post :
       LET tk == [task[j] EXCEPT !.resp = resp, !.sent = None]
       IN Commit(j, IF resp.kind = "neterr" THEN PeriodFailed(store, tk, j, ErrNet, now)
                    ELSE IF resp.kind = "html" THEN PeriodFailed(store, tk, j, ErrHtml, now)
                    ELSE PeriodParsed(store, tk, j, [kind |-> "badjson", rows |-> <<>>], now))
  /\ lastCall' = NoCall
  /\ UNCHANGED <<now, ticks, nextId>>

\* processJob: the response to the retry of a period.
RetryResp(j, env) ==
  /\ task[j].pc = "retry"
  /\ \E resp \in env.post :
       LET tk == [task[j] EXCEPT !.resp = resp, !.sent = None]
       IN Commit(j, IF resp.kind = "neterr" THEN PeriodFailed(store, tk, j, ErrNet, now)
                    ELSE IF resp.kind = "html" THEN PeriodFailed(store, tk, j, ErrHtml, now)
                    ELSE PeriodParsed(store, tk, j, resp, now))
  /\ lastCall' = NoCall
  /\ UNCHANGED <<now, ticks, nextId>>

\* processJob: sleep(200) after a period is over.
PeriodSleepDone(j) ==
  /\ task[j].pc = "period_sleep"
  /\ now >= task[j].wakeAt
  /\ Commit(j, NextPeriod(store, [task[j] EXCEPT !.wakeAt = 0, !.resp = NoResp], j, now))
  /\ lastCall' = NoCall
  /\ UNCHANGED <<now, ticks, nextId>>

\* The status route, were it to skip the eviction when the job is not found.
StatusRouteFoundOnlyCleanup(j) ==
  /\ lastCall' = [op |-> "poll", jobId |-> j, found |-> j \in DOMAIN store,
                  code |-> IF j \in DOMAIN store THEN HttpOk ELSE HttpNotFound,
                  result |-> getPayrollJob(store, j), request |-> None]
  /\ store' = IF j \in DOMAIN store THEN cleanupOldJobs(store, now, DefaultMaxAgeMs)
              ELSE store
  /\ UNCHANGED <<task, now, ticks, nextId>>

\* The status route, were it to evict the stale jobs before it looks the job
\* up.
StatusRouteCleansFirst(j) ==
  LET kept == cleanupOldJobs(store, now, DefaultMaxAgeMs)
  IN /\ lastCall' = [op |-> "poll", jobId |-> j, found |-> j \in DOMAIN kept,
                     code |-> IF j \in DOMAIN kept THEN HttpOk ELSE HttpNotFound,
                     result |-> getPayrollJob(kept, j), request |-> None]
     /\ store' = kept
     /\ UNCHANGED <<task, now, ticks, nextId>>

\* GET /api/payroll/status?jobId=j
StatusRoute(j) ==
  /\ lastCall' = [op |-> "poll", jobId |-> j, found |-> j \in DOMAIN store,
                  code |-> IF j \in DOMAIN store THEN HttpOk ELSE HttpNotFound,
                  result |-> getPayrollJob(store, j), request |-> None]
  /\ store' = cleanupOldJobs(store, now, DefaultMaxAgeMs)
  /\ UNCHANGED <<task, now, ticks, nextId>>

\* normalizeRows(year, month, rows), called on its own.
NormalizeCall(year, month, rows) ==
  /\ lastCall' = [op |-> "normalize", jobId |-> 0, found |-> TRUE, code |-> 0,
                  result |-> Some(normalizeRows(year, month, rows)),
                  request |-> Some(rows)]
  /\ UNCHANGED <<store, task, now, ticks, nextId>>

\* GET /api/payroll/status without a jobId parameter.
StatusRouteNoId ==
  /\ lastCall' = [op |-> "poll_no_id", jobId |-> 0, found |-> FALSE,
                  code |-> HttpBadRequest, result |-> None, request |-> None]
  /\ UNCHANGED <<store, task, now, ticks, nextId>>

\* Time passes.
Tick(d) ==
  /\ ticks < MaxTicks
  /\ now' = now + d
  /\ ticks' = ticks + 1
  /\ lastCall' = NoCall
  /\ UNCHANGED <<store, task, nextId>>

\* The timer of a sleep fires: time has reached the moment the sleep ends.
TimerFires(j) ==
  /\ task[j].pc \in {"poll_sleep", "period_sleep"}
  /\ now < task[j].wakeAt
  /\ now' = task[j].wakeAt
  /\ lastCall' = NoCall
  /\ UNCHANGED <<store, task, ticks, nextId>>

\* What the callers and the portal may do: the requests submitted and the
\* responses of the portal's endpoints.
FullEnv ==
  [params |-> ScrapeParams, page |-> PageResponses, refresh |-> RefreshResponses,
   loginProc |-> LoginProcResponses, post |-> PostResponses]

\* A portal whose network does not fail: it refuses a login, withholds the
\* approval token, or answers a POST with a stale-session page.  The
\* requests are for one period with an approval wait, or for several periods
\* with none.
RegistryEnv ==
  [params |-> {p \in ScrapeParams : (TotalMonths(p) = 1) <=> (p.waitAuthSeconds > 0)},
   page |-> {r \in PageResponses : r.ok /\ r.headerName = None},
   refresh |-> {r \in PageResponses : r.ok /\ r.headerName = None},
   loginProc |-> {"ok", "login_failure"},
   post |-> {r \in PostResponses : r.kind = "html" \/ (r.kind = "json" /\ r.rows # <<>>)}]

\* The steps of the background tasks, the status route and the clock.
Steps(env) ==
  \/ \E j \in JobIds : LoginPageResp(j, env)
  \/ \E j \in JobIds : LoginProcResp(j, env)
  \/ \E j \in JobIds : ProbeInitResp(j, env)
  \/ \E j \in JobIds : ProbeNoticeResp(j, env)
  \/ \E j \in JobIds : ProbeSuccessResp(j, env)
  \/ \E j \in JobIds : PollSleepDone(j)
  \/ \E j \in JobIds : PostResp(j, env)
  \/ \E j \in JobIds : RefreshResp(j, env)
  \/ \E j \in JobIds : RetryResp(j, env)
  \/ \E j \in JobIds : PeriodSleepDone(j)
  \/ \E j \in JobIds : StatusRoute(j)
  \/ StatusRouteNoId
  \/ \E d \in TickSteps : Tick(d)

\* One submission, any behaviour of the portal.
Next ==
  \/ \E params \in FullEnv.params : nextId = 1 /\ StartPayrollJob(params)
  \/ Steps(FullEnv)

Spec == Init /\ [][Next]_vars

\* Up to MaxJobs submissions running concurrently.
NextRegistry ==
  \/ \E params \in RegistryEnv.params : StartPayrollJob(params)
  \/ Steps(RegistryEnv)

SpecRegistry == Init /\ [][NextRegistry]_vars

\* Requests that wait two minutes for the approval and probe once a minute,
\* or wait 48 minutes and probe every 16 minutes.
LiveWaits ==
  {[waitAuthSeconds |-> 2 * DEFAULT_WAIT_SECONDS, pollIntervalSeconds |-> 30 * DEFAULT_POLL_INTERVAL],
   [waitAuthSeconds |-> 48 * 60, pollIntervalSeconds |-> 16 * 60]}

LiveEnv ==
  [params |-> {p \in [years : YearLists, months : MonthLists,
                      waitAuthSeconds : {w.waitAuthSeconds : w \in LiveWaits},
                      pollIntervalSeconds : {w.pollIntervalSeconds : w \in LiveWaits}] :
                 \E w \in LiveWaits : /\ p.waitAuthSeconds = w.waitAuthSeconds
                                       /\ p.pollIntervalSeconds = w.pollIntervalSeconds},
   page |-> PageResponses, refresh |-> PageResponses,
   loginProc |-> LoginProcResponses, post |-> PostResponses]

\* The next step of the background task of job j: the response it awaits
\* arrives, or the timer it awaits fires and the sleep ends.
TaskStep(j, env) ==
  \/ LoginPageResp(j, env)
  \/ LoginProcResp(j, env)
  \/ ProbeInitResp(j, env)
  \/ ProbeNoticeResp(j, env)
  \/ ProbeSuccessResp(j, env)
  \/ PollSleepDone(j)
  \/ PostResp(j, env)
  \/ RefreshResp(j, env)
  \/ RetryResp(j, env)
  \/ PeriodSleepDone(j)
  \/ TimerFires(j)

\* One submission and a caller that polls; time passes while the task sleeps.
NextLive ==
  \/ \E params \in LiveEnv.params : nextId = 1 /\ StartPayrollJob(params)
  \/ \E j \in JobIds : TaskStep(j, LiveEnv)
  \/ \E j \in JobIds : StatusRoute(j)

\* Every request of the task is answered or fails (the client's request
\* timeout), and every timer fires.
SpecLive ==
  Init /\ [][NextLive]_vars /\ \A j \in JobIds : WF_vars(TaskStep(j, LiveEnv))

\* The field normalizer on its own: one call, with any raw payload.
NextNormalizer ==
  \E year \in {2023} : \E month \in {1, 12} : \E rows \in RawPayloads :
    lastCall = NoCall /\ NormalizeCall(year, month, rows)

SpecNormalizer == Init /\ [][NextNormalizer]_vars

\* The two routes: one accepted submission, rejected ones at any time, over
\* the portal outcomes of RegistryEnv.
NextRoutes ==
  \/ \E body \in Bodies : (nextId = 1 \/ RouteRejects(body)) /\ StartRoute(body)
  \/ Steps(RegistryEnv)

SpecRoutes == Init /\ [][NextRoutes]_vars


(***************************************************************************)
(* Properties.                                                             *)
(***************************************************************************)
Kept == DOMAIN store \cap DOMAIN store'

Terminal == {"completed", "error"}

AllowedEdges ==
  {<<"pending", "auth_wait">>, <<"auth_wait", "fetching">>, <<"fetching", "completed">>,
   <<"pending", "error">>, <<"auth_wait", "error">>, <<"fetching", "error">>}

\* C1: every change of a job's status follows one of the edges
\* pending->auth_wait, auth_wait->fetching, fetching->completed or
\* (pending|auth_wait|fetching)->error.
C1_StatusEdges ==
  [][\A j \in Kept :
       store'[j].status # store[j].status
         => <<store[j].status, store'[j].status>> \in AllowedEdges]_vars

\* A job has walked the whole path to completed and has been polled there.
C1_Witness ==
  /\ lastCall.op = "poll"
  /\ IsSome(lastCall.result)
  /\ Val(lastCall.result).status = "completed"
  /\ Val(lastCall.result).processedMonths = 2

\* C2: once a job's status is completed or error, no later step changes it.
C2_TerminalStays ==
  [][\A j \in Kept :
       store[j].status \in Terminal => store'[j].status = store[j].status]_vars

\* A job that failed is still in the registry, its task has ended, and a
\* poll has just read it.
C2_Witness ==
  \E j \in DOMAIN store :
    /\ store[j].status = "error"
    /\ task[j].pc = "done"
    /\ lastCall.op = "poll" /\ lastCall.jobId = j
    /\ now > store[j].updatedAt

\* C3: a job's processedMonths never decreases and never exceeds its
\* totalMonths, the number of years times the number of months of the
\* request; what a poll or the creation returns is the stored count.
C3_ProgressBounded ==
  /\ [](\A j \in DOMAIN store :
          /\ store[j].totalMonths = Len(task[j].params.years) * Len(task[j].params.months)
          /\ store[j].processedMonths >= 0
          /\ store[j].processedMonths <= store[j].totalMonths)
  /\ [](lastCall.op \in {"poll", "start"} /\ IsSome(lastCall.result)
          => /\ Val(lastCall.result).processedMonths <= Val(lastCall.result).totalMonths
             /\ lastCall.jobId \in DOMAIN store
                  => /\ Val(lastCall.result).processedMonths
                          = store[lastCall.jobId].processedMonths
                     /\ Val(lastCall.result).totalMonths = store[lastCall.jobId].totalMonths)
  /\ [][\A j \in Kept : store'[j].processedMonths >= store[j].processedMonths]_vars

\* A poll sees the second of two periods under way.
C3_Witness ==
  /\ lastCall.op = "poll"
  /\ IsSome(lastCall.result)
  /\ Val(lastCall.result).status = "fetching"
  /\ Val(lastCall.result).processedMonths = 2
  /\ Val(lastCall.result).totalMonths = 2

\* C4: a snapshot returned by getPayrollJob or startPayrollJob carries the
\* transactions exactly when the job's status at that moment is completed.
C4_SnapshotTransactions ==
  /\ \A j \in DOMAIN store :
       LET snapshot == Val(getPayrollJob(store, j))
       IN /\ snapshot.status = store[j].status
          /\ IsSome(snapshot.transactions) <=> store[j].status = "completed"
          /\ IsSome(snapshot.transactions)
               => Val(snapshot.transactions) = store[j].transactions
  /\ lastCall.op \in {"poll", "start"} /\ IsSome(lastCall.result)
       => /\ IsSome(Val(lastCall.result).transactions)
               <=> Val(lastCall.result).status = "completed"
          /\ lastCall.jobId \in DOMAIN store
               => Val(lastCall.result).status = store[lastCall.jobId].status

\* A poll returns the transactions of a completed job.
C4_Witness ==
  /\ lastCall.op = "poll"
  /\ IsSome(lastCall.result)
  /\ Val(lastCall.result).status = "completed"
  /\ IsSome(Val(lastCall.result).transactions)
  /\ Len(Val(Val(lastCall.result).transactions)) > 0

\* C5: a job's summary is present exactly when its status is completed; it
\* is written in the update that sets status = completed and never again.
C5_SummaryOnlyAtCompletion ==
  /\ [](\A j \in DOMAIN store : IsSome(store[j].summary) <=> store[j].status = "completed")
  /\ [][\A j \in Kept :
          store'[j].summary # store[j].summary
            => /\ store[j].status # "completed"
               /\ store'[j].status = "completed"
               /\ store[j].summary = None]_vars

\* A completed job whose summary counts collected rows.
C5_Witness ==
  \E j \in DOMAIN store :
    /\ store[j].status = "completed"
    /\ IsSome(store[j].summary)
    /\ Val(store[j].summary).count > 0

\* C6: while a job's status is not completed the transactions of its record
\* are empty, also after periods have been collected; the rows appear in the
\* update that sets status = completed.
C6_TransactionsHidden ==
  /\ [](\A j \in DOMAIN store :
          store[j].status # "completed" => store[j].transactions = <<>>)
  /\ [][\A j \in Kept :
          store'[j].transactions # store[j].transactions
            => /\ store'[j].status = "completed"
               /\ store[j].status # "completed"
               /\ store'[j].transactions = task[j].all]_vars

\* A job is fetching its second period with rows of the first collected.
C6_Witness ==
  \E j \in DOMAIN store :
    /\ store[j].status = "fetching"
    /\ store[j].processedMonths = 2
    /\ Len(task[j].all) > 0
    /\ store[j].transactions = <<>>

\* C7: a job's error detail is present exactly when its status is error; a
\* failure of one period does not set it.
C7_ErrorOnlyWhenFailed ==
  \A j \in DOMAIN store :
    /\ IsSome(store[j].error) <=> store[j].status = "error"
    /\ Head(store[j].message) = "period error"
         => store[j].error = None /\ store[j].status = "fetching"

\* A period has failed and the job goes on fetching.
C7_Witness ==
  \E j \in DOMAIN store :
    /\ Head(store[j].message) = "period error"
    /\ task[j].pc = "period_sleep"
    /\ store[j].error = None


\* C8: startPayrollJob inserts a job under an identifier never used before,
\* keeps the other jobs, and returns at once (the login page still awaited)
\* a snapshot with status pending, processedMonths 0, totalMonths =
\* |years| x |months|, and no summary, error or transactions; getPayrollJob
\* returns the job right after.
C8_CreateReturnsPending ==
  [][nextId' # nextId
       => LET jobId == nextId
              snapshot == Val(lastCall'.result)
          IN /\ jobId \notin DOMAIN store
             /\ task[jobId].pc = "idle"
             /\ DOMAIN store' = DOMAIN store \cup {jobId}
             /\ \A k \in DOMAIN store : store'[k] = store[k]
             /\ task'[jobId].pc = "login_get"
             /\ now' = now
             /\ lastCall'.op = "start" /\ lastCall'.jobId = jobId
             /\ IsSome(lastCall'.result)
             /\ snapshot.id = jobId
             /\ snapshot.status = "pending"
             /\ snapshot.processedMonths = 0
             /\ snapshot.totalMonths
                  = Len(task'[jobId].params.years) * Len(task'[jobId].params.months)
             /\ snapshot.summary = None
             /\ snapshot.error = None
             /\ snapshot.transactions = None
             /\ getPayrollJob(store', jobId) = lastCall'.result]_vars

\* A second job for several periods has just been created beside the first.
C8_Witness ==
  /\ lastCall.op = "start"
  /\ lastCall.jobId = 2
  /\ DOMAIN store = {1, 2}
  /\ Val(lastCall.result).totalMonths > 1
  /\ store[1].status # "pending"

\* The patches the code hands to updateJob, applied to every reachable
\* registry.
SamplePatches ==
  {ConnectingPatch, AuthWaitPatch, ApprovedPatch, RefreshedPatch,
   ProgressPatch(1, 2, 2023, 1),
   PeriodErrorPatch(1, 2, 2023, 1, ErrHtml),
   CompletedPatch(normalizeRows(2023, 1, <<RowPlain>>), 1),
   FailedPatch(ErrLoginFailed)}

\* C9: updateJob with an id that is not in the registry changes nothing and
\* creates nothing; with a known id it merges the fields of the patch into
\* that job and sets its updatedAt to the current time.
C9_UpdateUnknownIsNoOp ==
  /\ [](\A j \in JobIds : \A patch \in SamplePatches :
          LET after == updateJob(store, j, patch, now)
          IN IF j \notin DOMAIN store THEN after = store
             ELSE /\ DOMAIN after = DOMAIN store
                  /\ \A k \in DOMAIN store \ {j} : after[k] = store[k]
                  /\ after[j].updatedAt = now
                  /\ \A f \in DOMAIN patch : after[j][f] = patch[f]
                  /\ \A f \in DOMAIN store[j] \ (DOMAIN patch \cup {"updatedAt"}) :
                       after[j][f] = store[j][f])
  /\ [][\A j \in JobIds :
          /\ (task'[j] # task[j] /\ task[j].pc # "idle" /\ j \notin DOMAIN store)
               => store' = store
          /\ (j \in Kept /\ store'[j] # store[j]) => store'[j].updatedAt = now']_vars

\* The task of an evicted job has run to its end beside a job in the
\* registry.
C9_Witness ==
  \E j \in JobIds : \E k \in DOMAIN store :
    /\ j \notin DOMAIN store
    /\ task[j].pc = "done"
    /\ store[k].status = "fetching"

\* C10: cleanupOldJobs removes exactly the jobs with now - updatedAt >
\* maxAgeMs and keeps every other job as it is, whatever its status; with the
\* default of 30 minutes an age of 31 minutes is removed and one of 29
\* minutes is kept.
C10_EvictsExactlyStale ==
  /\ [](\A maxAgeMs \in MaxAgeChoices :
          LET after == cleanupOldJobs(store, now, maxAgeMs)
          IN /\ DOMAIN after = {j \in DOMAIN store : now - store[j].updatedAt <= maxAgeMs}
             /\ \A j \in DOMAIN after : after[j] = store[j])
  /\ [](\A j \in DOMAIN store :
          LET after == cleanupOldJobs(store, now, 1800000)
          IN /\ now - store[j].updatedAt = 31 * 60000 => j \notin DOMAIN after
             /\ now - store[j].updatedAt = 29 * 60000 => j \in DOMAIN after)
  /\ [][lastCall'.op = "poll"
          => /\ DOMAIN store' = {j \in DOMAIN store : now - store[j].updatedAt <= 1800000}
             /\ \A j \in DOMAIN store' : store'[j] = store[j]]_vars

\* A poll has removed a job that was updated 31 minutes ago and has kept a
\* completed one.
C10_Witness ==
  /\ lastCall.op = "poll"
  /\ \E j \in JobIds : \E k \in DOMAIN store :
       /\ j \notin DOMAIN store
       /\ task[j].pc # "idle"
       /\ store[k].status = "completed"
       /\ now = 31 * 60000


\* C11: a poll that carries a job id returns the current snapshot of the job
\* (200) when the id is in the registry and "not found" (404) when it is
\* not, because it was never issued or because the job was evicted; in both
\* cases the call runs cleanupOldJobs with the default window of 30 minutes.
C11_PollFoundOrNotFound ==
  [][lastCall'.op = "poll"
       => LET j == lastCall'.jobId
              snapshot == Val(lastCall'.result)
          IN /\ j \in JobIds
             /\ IF j \in DOMAIN store
                  THEN /\ lastCall'.code = 200
                       /\ lastCall'.found
                       /\ IsSome(lastCall'.result)
                       /\ snapshot.id = j
                       /\ \A f \in {"status", "message", "processedMonths", "totalMonths",
                                    "summary", "error"} : snapshot[f] = store[j][f]
                  ELSE /\ lastCall'.code = 404
                       /\ ~lastCall'.found
                       /\ lastCall'.result = None
             /\ store' = cleanupOldJobs(store, now, 30 * 60 * 1000)
             /\ task' = task /\ now' = now]_vars

\* A poll for an evicted job has answered 404 while another job is in the
\* registry.
C11_Witness ==
  /\ lastCall.op = "poll"
  /\ lastCall.code = 404
  /\ task[lastCall.jobId].pc # "idle"
  /\ lastCall.jobId \notin DOMAIN store
  /\ DOMAIN store # {}


TimedOut(job) ==
  /\ IsSome(job.error)
  /\ Head(Val(job.error)) = "Mobile approval timed out. Last status: "

\* C13 as stated: the message of a timed-out job names the status codes of
\* the last completed probe cycle or the text of the last probe error.
C13_LastStatusIsAProbeResult ==
  [][\A j \in Kept :
       ~TimedOut(store[j]) /\ TimedOut(store'[j])
         => /\ store[j].status = "auth_wait"
            /\ store'[j].status = "error"
            /\ Val(store'[j].error)[2] \in {<<"poll", 200, 200, 200>>, <<"network error">>}]_vars

\* C13, amended: a job whose approval wait reaches its deadline without a
\* token goes from auth_wait to error and its task ends; the error and the
\* message carry the last status, which is the status codes of the last
\* completed probe cycle, the text of the last probe error, or, when the
\* deadline had passed before the first cycle (waitAuthSeconds <= 0), the
\* initial text "no poll yet".
C13_TimeoutFailsWithLastStatus ==
  [][\A j \in Kept :
       /\ ~TimedOut(store[j]) /\ TimedOut(store'[j])
            => LET last == Val(store'[j].error)[2]
               IN /\ store[j].status = "auth_wait"
                  /\ store'[j].status = "error"
                  /\ task'[j].pc = "done"
                  /\ store'[j].message = <<"failed", Val(store'[j].error)>>
                  /\ last \in {<<"poll", 200, 200, 200>>, <<"network error">>,
                               <<"no poll yet">>}
                  /\ last = <<"no poll yet">>
                       <=> task[j].pc = "login_post" /\ task[j].params.waitAuthSeconds <= 0
                  /\ task[j].pc = "poll_sleep" => last = task[j].lastError
       /\ task[j].pc = "poll_sleep" /\ task'[j] # task[j] /\ now >= task[j].deadline
            => TimedOut(store'[j]) /\ store'[j].status = "error"
       /\ task[j].pc = "poll_sleep" /\ task'[j] # task[j] /\ now < task[j].deadline
            => store'[j] = store[j] /\ task'[j].pc = "probe_init"]_vars

\* A job has timed out after a probe cycle that saw three pages without a
\* token.
C13_Witness ==
  \E j \in DOMAIN store :
    /\ TimedOut(store[j])
    /\ Val(store[j].error)[2] = <<"poll", 200, 200, 200>>
    /\ store[j].status = "error"
    /\ now >= 2 * 60 * 1000


\* The transactions of the one payload of the model for a period.
PayloadTxns(year, month) ==
  <<[year |-> year, month |-> month, gross |-> 1000, deductions |-> 200, net |-> 800],
    [year |-> year, month |-> month, gross |-> 50, deductions |-> 6, net |-> -500]>>

\* C14: when the first POST of a period is answered with an HTML page and,
\* after the token refresh, the retry is answered with JSON, the period adds
\* exactly the normalized rows of the retry's payload to the collection, and
\* no error message is written: the message stays the notice of the refresh.
C14_RetryPayloadIsCollected ==
  [][\A j \in Kept :
       task[j].pc = "retry" /\ task'[j] # task[j] /\ task'[j].resp.kind = "json"
         => LET k == task[j].processed
                year == task[j].params.years[((k - 1) \div Len(task[j].params.months)) + 1]
                month == task[j].params.months[((k - 1) % Len(task[j].params.months)) + 1]
            IN /\ task[j].resp.kind = "html"
               /\ store[j].message = <<"refreshed">>
               /\ store'[j] = store[j]
               /\ task'[j].pc = "period_sleep"
               /\ task'[j].processed = k
               /\ task'[j].all
                    = task[j].all \o (IF task'[j].resp.rows = <<>> THEN <<>>
                                      ELSE PayloadTxns(year, month))]_vars

\* The retry of the second period has brought the payload after a stale
\* first response.
C14_Witness ==
  \E j \in DOMAIN store :
    /\ task[j].pc = "period_sleep"
    /\ task[j].resp.kind = "json"
    /\ store[j].message = <<"refreshed">>
    /\ task[j].processed = 2
    /\ Len(task[j].all) = 2
    /\ task[j].all[1].month = 2


\* C15: when the first POST of a period and its retry are both answered
\* with an HTML page, the period adds no transactions, the failure is written
\* to the job's message while the status stays fetching and no error detail
\* is set, the loop goes on with the next period (or ends after the last),
\* and the job reaches completed.
C15_DoubleStaleIsNotFatal ==
  /\ [][\A j \in Kept :
          task[j].pc = "retry" /\ task'[j] # task[j]
            => task'[j].pc = "period_sleep" /\ task'[j].resp.kind # "none"]_vars
  /\ [][\A j \in Kept :
          task[j].pc = "retry" /\ task'[j] # task[j] /\ task'[j].resp.kind = "html"
            => LET k == task[j].processed
                   total == store[j].totalMonths
                   year == task[j].params.years[((k - 1) \div Len(task[j].params.months)) + 1]
                   month == task[j].params.months[((k - 1) % Len(task[j].params.months)) + 1]
               IN /\ task[j].resp.kind = "html"
                  /\ task'[j].all = task[j].all
                  /\ store'[j].message
                       = <<"period error", k, total, year, month, <<"expected JSON but got HTML">>>>
                  /\ store'[j].status = "fetching"
                  /\ store'[j].error = None
                  /\ task'[j].pc = "period_sleep"
                  /\ task'[j].processed = k]_vars
  /\ [][\A j \in Kept :
          task[j].pc = "period_sleep" /\ task'[j].pc # "period_sleep"
            => /\ task[j].processed < store[j].totalMonths
                    => /\ task'[j].pc = "post"
                       /\ task'[j].processed = task[j].processed + 1
                       /\ store'[j].processedMonths = task[j].processed + 1
                       /\ store'[j].status = "fetching"
                       /\ task'[j].all = task[j].all
               /\ task[j].processed = store[j].totalMonths
                    => /\ store'[j].status = "completed"
                       /\ store'[j].transactions = task[j].all]_vars
  /\ \A j \in JobIds :
       (j \in DOMAIN store /\ task[j].pc = "period_sleep" /\ task[j].resp.kind = "html")
         ~> (j \in DOMAIN store /\ store[j].status = "completed")

\* The first of two periods has failed with two stale responses and the
\* job is still fetching.
C15_Witness ==
  \E j \in DOMAIN store :
    /\ task[j].pc = "period_sleep"
    /\ task[j].resp.kind = "html"
    /\ Head(store[j].message) = "period error"
    /\ store[j].message[6] = <<"expected JSON but got HTML">>
    /\ store[j].status = "fetching"
    /\ store[j].processedMonths = 1
    /\ store[j].totalMonths = 2

\* C16 as stated: every created job eventually has status completed or
\* error.
C16_EveryJobReachesTerminalStatus ==
  \A j \in JobIds :
    (j \in DOMAIN store) ~> (j \in DOMAIN store /\ store[j].status \in Terminal)

\* C16, amended: when every request is answered or fails and every timer
\* fires, the background task of every created job runs to its end, and the
\* job reaches status completed or error unless it is evicted from the
\* registry first; a job in the registry has a terminal status exactly when
\* its task has ended.
C16_TaskEndsAndJobTerminalUnlessEvicted ==
  /\ \A j \in JobIds : (task[j].pc # "idle") ~> (task[j].pc = "done")
  /\ \A j \in JobIds :
       (j \in DOMAIN store) ~> (j \notin DOMAIN store \/ store[j].status \in Terminal)
  /\ [](\A j \in DOMAIN store : store[j].status \in Terminal <=> task[j].pc = "done")
  /\ [][\A j \in JobIds : task[j].pc = "done" => task'[j] = task[j]]_vars

\* A job has completed after an approval wait of two probe cycles and two
\* periods, while polls were made.
C16_Witness ==
  \E j \in DOMAIN store :
    /\ store[j].status = "completed"
    /\ task[j].pc = "done"
    /\ store[j].totalMonths = 2
    /\ now >= 60 * 1000 + 2 * PeriodSleepMs
    /\ lastCall.op = "poll"


\* The sum of one field over the transactions at the given indices.
RECURSIVE TotalOf(_, _, _)
TotalOf(transactions, field, indices) ==
  IF indices = {} THEN 0
  ELSE LET i == CHOOSE x \in indices : TRUE
       IN transactions[i][field] + TotalOf(transactions, field, indices \ {i})

\* C17: the summary written with status = completed is the sum of gross, of
\* deductions and of net over all the transactions the task has collected,
\* with count their number; the job's transactions are that collection.  Two
\* transactions 100/20/80 and 50/5/45 give 150/25/125/2, none gives zeros.
C17_SummaryIsFieldwiseSum ==
  /\ [][\A j \in Kept :
          store[j].status # "completed" /\ store'[j].status = "completed"
            => LET all == task[j].all
                   summary == Val(store'[j].summary)
               IN /\ IsSome(store'[j].summary)
                  /\ store'[j].transactions = all
                  /\ summary.count = Len(all)
                  /\ \A f \in {"gross", "deductions", "net"} :
                       summary[f] = TotalOf(all, f, DOMAIN all)
                  /\ store'[j].message = <<"done", Len(all)>>]_vars
  /\ [](\A j \in DOMAIN store :
          store[j].status = "completed"
            => /\ Val(store[j].summary).count = Len(store[j].transactions)
               /\ \A f \in {"gross", "deductions", "net"} :
                    Val(store[j].summary)[f]
                      = TotalOf(store[j].transactions, f, DOMAIN store[j].transactions))
  /\ [](/\ computeSummary(<<[year |-> 2023, month |-> 1, gross |-> 100, deductions |-> 20,
                               net |-> 80],
                              [year |-> 2023, month |-> 1, gross |-> 50, deductions |-> 5,
                               net |-> 45]>>)
             = [gross |-> 150, deductions |-> 25, net |-> 125, count |-> 2]
        /\ computeSummary(<<>>) = [gross |-> 0, deductions |-> 0, net |-> 0, count |-> 0])

\* A job has completed with the rows of two periods: four transactions,
\* gross 2100, deductions 412, net 600.
C17_Witness ==
  \E j \in DOMAIN store :
    /\ store[j].status = "completed"
    /\ Len(store[j].transactions) = 4
    /\ store[j].summary = Some([gross |-> 2100, deductions |-> 412, net |-> 600, count |-> 4])


\* The rows of the last call of normalizeRows that are objects.
ObjectRows ==
  LET rows == Val(lastCall.request)
  IN SelectSeq(rows, LAMBDA row : row.obj)

\* C18 as stated: gross, deductions and net of every transaction the
\* normalizer produces are non-negative integers.
C18_MoneyIsNonNegative ==
  lastCall.op = "normalize"
    => \A i \in DOMAIN Val(lastCall.result) :
         LET txn == Val(lastCall.result)[i]
         IN txn.gross \in Nat /\ txn.deductions \in Nat /\ txn.net \in Nat

\* The positions in a field's alias list under which a raw record holds a
\* value other than null and the empty string.
Holding(fields, keys) ==
  {i \in DOMAIN keys :
     /\ keys[i] \in DOMAIN fields
     /\ fields[keys[i]] # Null
     /\ fields[keys[i]] # Str(<<>>)}

C20_NoLoginTokenIsFatal ==
  /\ [][\A j \in Kept :
          store[j].error = None
            /\ store'[j].error = Some(<<"no _csrf token on the login page">>)
            => /\ task[j].pc = "login_get"
               /\ store[j].status = "pending"
               /\ store'[j].status = "error"
               /\ store'[j].message = <<"failed", <<"no _csrf token on the login page">>>>
               /\ task'[j].pc = "done"]_vars
  /\ [](\A j \in DOMAIN store : task[j].pc = "login_get" => store[j].status = "pending")
  /\ [][\A j \in JobIds :
          /\ task'[j].pc = "login_get" => task[j].pc \in {"idle", "login_get"}
          /\ task[j].pc = "login_get" => task'[j].pc \in {"login_get", "login_post", "done"}
          /\ task[j].pc = "done" => task'[j] = task[j]]_vars

\* A poll shows a job that failed on a login page without a token.
C20_Witness ==
  /\ lastCall.op = "poll"
  /\ IsSome(lastCall.result)
  /\ Val(lastCall.result).status = "error"
  /\ Val(lastCall.result).error = Some(<<"no _csrf token on the login page">>)
  /\ task[lastCall.jobId].pc = "done"


\* The positions of the task at which a request to the portal is awaited
\* after the credentials have been accepted: the approval probes and the
\* requests of the collection loop.
AfterLoginPcs ==
  {"probe_init", "probe_notice", "probe_success", "poll_sleep",
   "post", "refresh", "retry", "period_sleep"}

LoginRefused(job) == job.error = Some(<<"login failed">>)

\* C21: when the response to the credentials matches a login-failure phrase
\* the job goes from auth_wait to error in the step that reads the response
\* and processJob returns: the credentials are posted once, no approval probe
\* and no payroll request follows, and the job is never fetching.
C21_LoginFailureIsFatal ==
  /\ [][\A j \in Kept :
          ~LoginRefused(store[j]) /\ LoginRefused(store'[j])
            => /\ task[j].pc = "login_post"
               /\ store[j].status = "auth_wait"
               /\ store'[j].status = "error"
               /\ store'[j].message = <<"failed", <<"login failed">>>>
               /\ store'[j].processedMonths = 0
               /\ task'[j].pc = "done"]_vars
  /\ [](\A j \in DOMAIN store :
          LoginRefused(store[j])
            => /\ store[j].status = "error"
               /\ task[j].pc = "done"
               /\ store[j].processedMonths = 0
               /\ store[j].transactions = <<>>)
  /\ [](\A j \in DOMAIN store : task[j].pc = "login_post" => store[j].status = "auth_wait")
  /\ [][\A j \in JobIds :
          /\ task'[j].pc = "login_post" => task[j].pc \in {"login_get", "login_post"}
          /\ task[j].pc = "login_post" /\ task'[j].pc \in AfterLoginPcs /\ j \in Kept
               => ~LoginRefused(store'[j])
          /\ task[j].pc = "done" => task'[j] = task[j]
          /\ j \in Kept /\ LoginRefused(store[j]) => store'[j] = store[j]]_vars

\* A poll, some time after the refusal, shows the job failed by the login.
C21_Witness ==
  /\ lastCall.op = "poll"
  /\ IsSome(lastCall.result)
  /\ Val(lastCall.result).status = "error"
  /\ Val(lastCall.result).error = Some(<<"login failed">>)
  /\ task[lastCall.jobId].pc = "done"
  /\ now > 0


ProbePcs == {"probe_init", "probe_notice", "probe_success"}

\* C22: in every probe cycle of the approval wait the endpoints are probed
\* in the order init page, notice popup, login-success; the first response
\* that carries a token ends the wait without probing the rest of the cycle,
\* the job becomes fetching, and the token and header name handed to the
\* collection loop are those of that response, the header name being
\* X-CSRF-TOKEN when the response has none.
C22_FirstTokenEndsTheWait ==
  /\ [][\A j \in JobIds :
          task'[j].pc # task[j].pc
            => /\ task'[j].pc = "probe_init" => task[j].pc \in {"login_post", "poll_sleep"}
               /\ task'[j].pc = "probe_notice" => task[j].pc = "probe_init"
               /\ task'[j].pc = "probe_success" => task[j].pc = "probe_notice"
               /\ task[j].pc = "probe_init"
                    => task'[j].pc \in {"probe_notice", "poll_sleep", "post"}
               /\ task[j].pc = "probe_notice"
                    => task'[j].pc \in {"probe_success", "poll_sleep", "post"}
               /\ task[j].pc = "probe_success" => task'[j].pc \in {"poll_sleep", "post"}]_vars
  /\ [][\A j \in JobIds :
          task[j].pc \in ProbePcs /\ task'[j] # task[j]
            => IF IsSome(task'[j].probe)
                 THEN LET page == Val(task'[j].probe).page
                      IN /\ Val(task'[j].probe).endpoint = task[j].pc
                         /\ page.ok /\ IsSome(page.token)
                         /\ task'[j].pc = "post"
                         /\ task'[j].processed = 1
                         /\ task'[j].csrfToken = page.token
                         /\ task'[j].headerName
                              = IF page.headerName = None THEN Some("X-CSRF-TOKEN")
                                ELSE page.headerName
                         /\ j \in DOMAIN store
                              => /\ j \in DOMAIN store'
                                 /\ store[j].status = "auth_wait"
                                 /\ store'[j].status = "fetching"
                 ELSE /\ task'[j].pc \in ProbePcs \cup {"poll_sleep"}
                      /\ task'[j].csrfToken = None
                      /\ store' = store]_vars
  /\ [][\A j \in JobIds :
          /\ task'[j].probe # task[j].probe /\ IsSome(task'[j].probe)
               => task[j].pc \in ProbePcs
          /\ task'[j].csrfToken # task[j].csrfToken /\ IsSome(task'[j].csrfToken)
               => task[j].pc \in ProbePcs
          /\ j \in Kept /\ store[j].status # "fetching" /\ store'[j].status = "fetching"
               => task[j].pc \in ProbePcs /\ IsSome(task'[j].probe)]_vars

\* The login-success probe, the third of its cycle, has brought a token
\* without a header name, and the job is fetching its first period.
C22_Witness ==
  \E j \in DOMAIN store :
    /\ task[j].pc = "post"
    /\ IsSome(task[j].probe)
    /\ Val(task[j].probe).endpoint = "probe_success"
    /\ Val(task[j].probe).page.headerName = None
    /\ task[j].headerName = Some("X-CSRF-TOKEN")
    /\ store[j].status = "fetching"
    /\ store[j].processedMonths = 1


\* C23: a network error of one approval probe ends the probe cycle and
\* nothing else: the job's record is untouched (status auth_wait), the error
\* text becomes the last error, the task sleeps max(500 ms, the poll
\* interval), and when the sleep is over a new cycle starts with the init
\* page if the deadline has not passed; only the timeout fails the job, with
\* that text as its last status.
C23_ProbeErrorIsSwallowed ==
  /\ [](\A j \in DOMAIN store :
          task[j].pc \in ProbePcs \cup {"poll_sleep"}
            => store[j].status = "auth_wait" /\ store[j].error = None)
  /\ [][\A j \in JobIds :
          task[j].pc \in ProbePcs /\ task'[j] # task[j]
            => /\ task'[j].pc \in ProbePcs \cup {"poll_sleep", "post"}
               /\ task'[j].pc = "poll_sleep"
                    => /\ store' = store
                       /\ task'[j].deadline = task[j].deadline
                       /\ task'[j].wakeAt
                            = now + (IF task[j].params.pollIntervalSeconds * 1000 > 500
                                       THEN task[j].params.pollIntervalSeconds * 1000
                                       ELSE 500)
                       /\ task'[j].lastError \in {<<"network error">>, <<"poll", 200, 200, 200>>}
                       /\ task[j].pc # "probe_success"
                            => task'[j].lastError = <<"network error">>]_vars
  /\ [][\A j \in JobIds :
          task[j].pc = "poll_sleep" /\ task'[j] # task[j]
            => /\ now >= task[j].wakeAt
               /\ IF now < task[j].deadline
                    THEN /\ task'[j].pc = "probe_init"
                         /\ task'[j].lastError = task[j].lastError
                         /\ store' = store
                    ELSE /\ task'[j].pc = "done"
                         /\ j \in DOMAIN store
                              => store'[j].error
                                   = Some(<<"Mobile approval timed out. Last status: ",
                                            task[j].lastError>>)]_vars

\* After a probe that failed in the network and the sleep, a new cycle is
\* probing the init page before the deadline.
C23_Witness ==
  \E j \in DOMAIN store :
    /\ task[j].pc = "probe_init"
    /\ task[j].lastError = <<"network error">>
    /\ store[j].status = "auth_wait"
    /\ now >= 2000
    /\ now < task[j].deadline


\* The pairs of the request in the order of the nested loops: for each year
\* of the list, each month of the list.
RECURSIVE PairsOf(_, _)
PairsOf(years, months) ==
  IF years = <<>> THEN <<>>
  ELSE [i \in DOMAIN months |-> <<Head(years), months[i]>>] \o PairsOf(Tail(years), months)

PeriodPcs == {"post", "refresh", "retry", "period_sleep"}

\* C24: the collection loop takes the (year, month) pairs of the request
\* once each, years in the order of their list and within a year the months
\* in the order of theirs; the step that issues the first POST of the k-th
\* pair has set processedMonths to k and the message to the progress of that
\* pair, and a pair whose fetch fails is not taken again.
C24_PeriodsInOrderProgressFirst ==
  /\ [][\A j \in JobIds :
          task'[j].pc = "post" /\ task[j].pc # "post"
            => LET k == task'[j].processed
                   pairs == PairsOf(task[j].params.years, task[j].params.months)
               IN /\ task[j].pc \in ProbePcs \cup {"period_sleep"}
                  /\ task[j].pc \in ProbePcs => k = 1
                  /\ task[j].pc = "period_sleep" => k = task[j].processed + 1
                  /\ k \in DOMAIN pairs
                  /\ j \in DOMAIN store'
                       => /\ store'[j].processedMonths = k
                          /\ store'[j].totalMonths = Len(pairs)
                          /\ store'[j].message
                               = <<"progress", k, Len(pairs), pairs[k][1], pairs[k][2]>>
                          /\ store'[j].status = "fetching"]_vars
  /\ [][\A j \in JobIds :
          /\ task[j].pc \in PeriodPcs /\ task'[j].pc \in PeriodPcs \ {"post"}
               => task'[j].processed = task[j].processed
          /\ task[j].pc \in PeriodPcs /\ task'[j].pc = "done"
               => /\ task[j].pc = "period_sleep"
                  /\ task[j].processed
                       = Len(task[j].params.years) * Len(task[j].params.months)
          /\ task'[j].pc \in {"refresh", "retry"} => task[j].pc \in {"post", "refresh", "retry"}
          /\ j \in Kept /\ store'[j].processedMonths # store[j].processedMonths
               => task'[j].pc = "post" /\ task[j].pc # "post"]_vars
  /\ [](PairsOf(<<2023, 2024>>, <<1, 2>>)
          = <<<<2023, 1>>, <<2023, 2>>, <<2024, 1>>, <<2024, 2>>>>)

\* The POST of the fourth pair of a request for two years and two months
\* is under way after a period that failed and one that brought rows.
C24_Witness ==
  \E j \in DOMAIN store :
    /\ task[j].pc = "post"
    /\ store[j].processedMonths = 4
    /\ store[j].message = <<"progress", 4, 4, 2024, 2>>
    /\ Len(task[j].all) = 2
    /\ task[j].all[1].year = 2023 /\ task[j].all[1].month = 2


\* The place of a position in the run of one period: the first POST, the
\* token refresh, the second POST, the sleep that ends the period.
PeriodRank(pc) ==
  CASE pc = "post" -> 1 [] pc = "refresh" -> 2 [] pc = "retry" -> 3
    [] pc = "period_sleep" -> 4 [] OTHER -> 0

\* C25: within one period the task moves only forwards through first POST,
\* token refresh, second POST and the closing sleep, so a period has at most
\* two POSTs and one refresh; the refresh follows only a first response that
\* is HTML and the second POST only a refresh that brought a token; after
\* the second POST or any failure the period ends, and the next POST is the
\* first one of the next period.
C25_AtMostOneRetryPerPeriod ==
  /\ [][\A j \in JobIds :
          task[j].pc \in PeriodPcs /\ task'[j] # task[j]
            => /\ task'[j].pc \in PeriodPcs \cup {"done"}
               /\ task'[j].pc # "done" /\ task'[j].processed = task[j].processed
                    => PeriodRank(task'[j].pc) > PeriodRank(task[j].pc)
               /\ task'[j].processed # task[j].processed
                    => /\ task[j].pc = "period_sleep"
                       /\ task'[j].pc \in {"post", "done"}
                       /\ task'[j].pc = "post" => task'[j].processed = task[j].processed + 1
               /\ task'[j].pc = "refresh"
                    => task[j].pc = "post" /\ task'[j].resp.kind = "html"
               /\ task'[j].pc = "retry"
                    => /\ task[j].pc = "refresh"
                       /\ task[j].resp.kind = "html"
                       /\ task'[j].resp = task[j].resp
               /\ task[j].pc = "post" /\ task'[j].resp.kind # "html"
                    => task'[j].pc = "period_sleep"
               /\ task[j].pc = "retry" => task'[j].pc = "period_sleep"]_vars
  /\ [][\A j \in JobIds :
          task'[j].pc \in {"refresh", "retry"} /\ task[j].pc \notin PeriodPcs
            => task'[j] = task[j]]_vars

\* The second POST of the second period is under way after a refresh.
C25_Witness ==
  \E j \in DOMAIN store :
    /\ task[j].pc = "retry"
    /\ task[j].processed = 2
    /\ task[j].resp.kind = "html"
    /\ store[j].message = <<"refreshed">>
    /\ store[j].processedMonths = 2


\* The texts of the failures of one period.
PeriodFailures ==
  {<<"network error">>, <<"Unable to extract _csrf token after approval.">>,
   <<"JSON.parse failed">>, <<"expected JSON but got HTML">>}

\* A step of job j's task that ends a period without a payload: a transport
\* error, a refresh that fails, a body that does not parse, HTML on the
\* retry.
PeriodFailsInStep(j) ==
  /\ task[j].pc \in {"post", "refresh", "retry"}
  /\ task'[j].pc = "period_sleep"
  /\ \/ task[j].pc = "refresh"
     \/ task'[j].resp.kind \in {"neterr", "badjson"}
     \/ task[j].pc = "retry" /\ task'[j].resp.kind = "html"

\* C26: a job that is fetching never gets status error: a failure while a
\* period is processed (transport error, failed token refresh, unparseable
\* body, HTML on the retry) is written to the message only, the period adds
\* no transactions, the loop goes on with the remaining periods, and the job
\* ends completed with processedMonths = totalMonths.
C26_PeriodFailureIsNotFatal ==
  /\ [][\A j \in Kept :
          store[j].status = "fetching"
            => /\ store'[j].status \in {"fetching", "completed"}
               /\ store'[j].error = None
               /\ store'[j].status = "completed"
                    => /\ store'[j].processedMonths = store'[j].totalMonths
                       /\ task[j].pc = "period_sleep"
                       /\ task[j].processed = store[j].totalMonths
                       /\ store'[j].transactions = task[j].all]_vars
  /\ [][\A j \in Kept :
          PeriodFailsInStep(j)
            => LET k == task[j].processed
                   pairs == PairsOf(task[j].params.years, task[j].params.months)
               IN /\ task'[j].all = task[j].all
                  /\ task'[j].processed = k
                  /\ store'[j].status = "fetching"
                  /\ Len(store'[j].message) = 6
                  /\ SubSeq(store'[j].message, 1, 5)
                       = <<"period error", k, Len(pairs), pairs[k][1], pairs[k][2]>>
                  /\ store'[j].message[6] \in PeriodFailures
                  /\ task[j].pc = "refresh"
                       => store'[j].message[6]
                            \in {<<"network error">>,
                                 <<"Unable to extract _csrf token after approval.">>}
                  /\ task'[j].resp.kind = "badjson"
                       => store'[j].message[6] = <<"JSON.parse failed">>
                  /\ \A f \in DOMAIN store[j] \ {"message", "updatedAt"} :
                       store'[j][f] = store[j][f]]_vars
  /\ [][\A j \in JobIds :
          task[j].pc \in PeriodPcs /\ task'[j] # task[j]
            => /\ task'[j].pc \in PeriodPcs \cup {"done"}
               /\ task[j].pc \in {"post", "refresh", "retry"} => task'[j].pc # "done"
               /\ task[j].pc = "period_sleep"
                    => IF task[j].processed
                            < Len(task[j].params.years) * Len(task[j].params.months)
                         THEN task'[j].pc = "post" /\ task'[j].all = task[j].all
                         ELSE task'[j].pc = "done"]_vars
  /\ \A j \in JobIds :
       (j \in DOMAIN store /\ store[j].status = "fetching")
         ~> (/\ j \in DOMAIN store
             /\ store[j].status = "completed"
             /\ store[j].processedMonths = store[j].totalMonths)

\* The token refresh of the first of two periods has brought no token: the
\* job is still fetching, with the failure in its message.
C26_Witness ==
  \E j \in DOMAIN store :
    /\ task[j].pc = "period_sleep"
    /\ store[j].status = "fetching"
    /\ store[j].message
         = <<"period error", 1, 2, 2023, 1, <<"Unable to extract _csrf token after approval.">>>>
    /\ store[j].error = None
    /\ task[j].all = <<>>


\* C27: with several jobs under way and a caller polling, a step of one
\* job's background task changes no other task and no other job's record:
\* status, progress, message, transactions and updatedAt of every other job
\* stay as they are, and no job is removed; a record in the registry changes
\* only in a step of the task of its own job.
C27_TasksWriteOnlyOwnJob ==
  /\ [][\A j \in JobIds :
          task'[j] # task[j]
            => /\ \A k \in JobIds \ {j} : task'[k] = task[k]
               /\ \A k \in DOMAIN store \ {j} : k \in DOMAIN store' /\ store'[k] = store[k]
               /\ DOMAIN store' \subseteq DOMAIN store \cup {j}]_vars
  /\ [][\A k \in Kept :
          store'[k] # store[k]
            => /\ task'[k] # task[k]
               /\ task[k].pc \notin {"idle", "done"}
               /\ store'[k].id = k
               /\ store'[k].updatedAt = now]_vars
  /\ [][lastCall'.op \in {"poll", "poll_no_id"}
          => task' = task /\ \A k \in Kept : store'[k] = store[k]]_vars

\* Two jobs are under way, the first fetching and the second, submitted a
\* minute later, waiting for the approval, and a poll has just been answered.
C27_Witness ==
  /\ DOMAIN store = {1, 2}
  /\ store[1].status = "fetching"
  /\ task[1].pc \in PeriodPcs
  /\ store[2].status = "auth_wait"
  /\ task[2].pc \in ProbePcs
  /\ store[2].updatedAt > store[1].updatedAt
  /\ lastCall.op = "poll"


\* C28: the token and header name that fetchLatestCsrf returns in a period
\* are carried by that period's second POST only: the first POST of every
\* period, also of the periods after a refresh, carries the token (as header
\* value and as _csrf field) and the header name that the approval wait
\* returned, which no step of the collection loop changes.
C28_RefreshedTokenIsNotKept ==
  /\ [][\A j \in JobIds :
          task[j].pc \in PeriodPcs /\ task'[j].pc \in PeriodPcs
            => /\ task'[j].csrfToken = task[j].csrfToken
               /\ task'[j].headerName = task[j].headerName]_vars
  /\ [][\A j \in JobIds :
          task'[j].pc = "post" /\ task[j].pc # "post"
            => LET k == task'[j].processed
                   pairs == PairsOf(task[j].params.years, task[j].params.months)
                   token == IF task[j].pc \in ProbePcs
                              THEN Val(Val(task'[j].probe).page.token)
                              ELSE Val(task[j].csrfToken)
                   header == IF task[j].pc \in ProbePcs
                               THEN (IF Val(task'[j].probe).page.headerName = None
                                       THEN "X-CSRF-TOKEN"
                                       ELSE Val(Val(task'[j].probe).page.headerName))
                               ELSE Val(task[j].headerName)
               IN /\ task'[j].sent
                       = Some([headerName |-> header, headerValue |-> token,
                               csrfField |-> token,
                               year |-> pairs[k][1], month |-> pairs[k][2]])
                  /\ task'[j].refreshed = task[j].refreshed]_vars
  /\ [][\A j \in JobIds :
          task'[j].pc = "retry" /\ task[j].pc # "retry"
            => LET k == task[j].processed
                   pairs == PairsOf(task[j].params.years, task[j].params.months)
               IN /\ task[j].pc = "refresh"
                  /\ IsSome(task'[j].refreshed)
                  /\ Val(task'[j].refreshed).token \in {"tokA", "tokB"}
                  /\ task'[j].sent
                       = Some([headerName |-> Val(task'[j].refreshed).headerName,
                               headerValue |-> Val(task'[j].refreshed).token,
                               csrfField |-> Val(task'[j].refreshed).token,
                               year |-> pairs[k][1], month |-> pairs[k][2]])]_vars
  /\ [](\A j \in JobIds :
          /\ IsSome(task[j].sent) <=> task[j].pc \in {"post", "retry"}
          /\ task[j].pc = "post"
               => /\ Val(task[j].sent).headerValue = Val(task[j].csrfToken)
                  /\ Val(task[j].sent).csrfField = Val(task[j].csrfToken)
                  /\ Val(task[j].sent).headerName = Val(task[j].headerName))

\* The first POST of the second period carries the token and header name of
\* the approval wait, after the refresh of the first period had brought
\* another token and no header name.
C28_Witness ==
  \E j \in DOMAIN store :
    /\ task[j].pc = "post"
    /\ task[j].processed = 2
    /\ task[j].refreshed = Some([token |-> "tokB", headerName |-> "X-CSRF-TOKEN"])
    /\ task[j].sent
         = Some([headerName |-> "X-XSRF", headerValue |-> "tokA", csrfField |-> "tokA",
                 year |-> 2023, month |-> 2])


\* The job has been created and is no longer in the registry.
Evicted(j) == task[j].pc # "idle" /\ j \notin DOMAIN store

\* C29: a poll removes every job whose last update is more than 30 minutes
\* old, also one whose status is not terminal and whose task is running (an
\* approval wait that outlasts the window writes no update); from then on
\* the steps of the task leave the registry as it is, the job is never in
\* the registry again, every poll for its id is answered not found, and the
\* task still runs to its end.
C29_EvictedWhileRunning ==
  /\ [][lastCall'.op = "poll"
          => \A j \in DOMAIN store :
               now - store[j].updatedAt > 30 * 60 * 1000 => j \notin DOMAIN store']_vars
  /\ [][\A j \in DOMAIN store :
          j \notin DOMAIN store'
            => /\ lastCall'.op = "poll"
               /\ now - store[j].updatedAt > 30 * 60 * 1000
               /\ task' = task]_vars
  /\ [][\A j \in JobIds :
          Evicted(j)
            => /\ j \notin DOMAIN store'
               /\ task'[j] # task[j] => store' = store
               /\ lastCall'.op = "poll" /\ lastCall'.jobId = j
                    => /\ lastCall'.code = 404
                       /\ ~lastCall'.found
                       /\ lastCall'.result = None]_vars
  /\ \A j \in JobIds : Evicted(j) ~> (Evicted(j) /\ task[j].pc = "done")

\* A poll for a job that was evicted during its approval wait is answered
\* not found while the task, approved since, has collected a period.
C29_Witness ==
  \E j \in JobIds :
    /\ Evicted(j)
    /\ task[j].pc = "period_sleep"
    /\ Len(task[j].all) > 0
    /\ now >= 32 * 60 * 1000
    /\ lastCall.op = "poll" /\ lastCall.jobId = j /\ lastCall.code = 404


\* C30: a poll looks the job up before it evicts: for a job that is in the
\* registry when the call begins it answers 200 with the job's snapshot, also
\* when the job's last update is more than 30 minutes old, and in that case
\* the same call removes the job, so that the next poll for the id is
\* answered not found; not found is answered only for an id that was not in
\* the registry when the call began.
C30_LookupPrecedesEviction ==
  /\ [][lastCall'.op = "poll"
          => LET j == lastCall'.jobId
                 stale == now - store[j].updatedAt > 30 * 60 * 1000
             IN /\ j \in DOMAIN store
                     => /\ lastCall'.code = 200
                        /\ lastCall'.found
                        /\ IsSome(lastCall'.result)
                        /\ Val(lastCall'.result).id = j
                        /\ Val(lastCall'.result).status = store[j].status
                        /\ Val(lastCall'.result).message = store[j].message
                        /\ Val(lastCall'.result).processedMonths = store[j].processedMonths
                        /\ stale <=> j \notin DOMAIN store'
                /\ lastCall'.code = 404 <=> j \notin DOMAIN store
                /\ lastCall'.code \in {200, 404}]_vars
  /\ [][(/\ lastCall.op = "poll" /\ lastCall.code = 200
         /\ lastCall.jobId \notin DOMAIN store
         /\ lastCall'.op = "poll" /\ lastCall'.jobId = lastCall.jobId)
          => lastCall'.code = 404 /\ lastCall'.result = None /\ store' = store]_vars
  /\ [](lastCall.op = "poll" /\ lastCall.code = 200 /\ lastCall.jobId \notin DOMAIN store
          => now > 30 * 60 * 1000)

\* A poll has returned the snapshot of a job waiting for the approval and
\* has removed that job in the same call.
C30_Witness ==
  /\ lastCall.op = "poll"
  /\ lastCall.code = 200
  /\ IsSome(lastCall.result)
  /\ Val(lastCall.result).status = "auth_wait"
  /\ lastCall.jobId \notin DOMAIN store
  /\ task[lastCall.jobId].pc \in ProbePcs \cup {"poll_sleep"}


\* C31: the deadline of the approval wait is tested only where a probe
\* cycle starts: a cycle starts only while the time is before the deadline
\* (with waitAuthSeconds <= 0 none starts and the job fails with last status
\* "no poll yet"), a cycle under way is not cut short when the deadline
\* passes, and a token it finds at or after the deadline still makes the job
\* fetching.
C31_DeadlineCheckedAtCycleStart ==
  /\ [][\A j \in JobIds :
          task'[j].pc = "probe_init" /\ task[j].pc # "probe_init"
            => /\ task[j].pc \in {"login_post", "poll_sleep"}
               /\ now < task'[j].deadline
               /\ task[j].pc = "login_post"
                    => /\ task'[j].deadline = now + task[j].params.waitAuthSeconds * 1000
                       /\ task[j].params.waitAuthSeconds > 0
               /\ task[j].pc = "poll_sleep" => task'[j].deadline = task[j].deadline]_vars
  /\ [][\A j \in JobIds :
          task[j].pc \in {"login_post", "poll_sleep"} /\ task'[j] # task[j]
            /\ (IF task[j].pc = "login_post"
                  THEN task[j].params.waitAuthSeconds <= 0
                  ELSE now >= task[j].deadline)
            => /\ task'[j].pc = "done"
               /\ j \in DOMAIN store
                    => /\ store'[j].status = "error"
                       /\ task[j].pc = "login_post"
                            => store'[j].error
                                 \in {Some(<<"network error">>), Some(<<"login failed">>),
                                      Some(<<"Mobile approval timed out. Last status: ",
                                             <<"no poll yet">>>>)}
                       /\ task[j].pc = "poll_sleep"
                            => store'[j].error
                                 = Some(<<"Mobile approval timed out. Last status: ",
                                          task[j].lastError>>)]_vars
  /\ [][\A j \in JobIds :
          task[j].pc \in ProbePcs /\ task'[j] # task[j]
            => /\ task'[j].pc # "done"
               /\ j \in DOMAIN store
                    => j \in DOMAIN store' /\ store'[j].status \in {"auth_wait", "fetching"}
               /\ IsSome(task'[j].probe)
                    => /\ Val(task'[j].probe).late <=> now >= task[j].deadline
                       /\ task'[j].pc = "post"
                       /\ j \in DOMAIN store
                            => store'[j].status = "fetching" /\ store'[j].error = None
               /\ task'[j].pc \in ProbePcs => task'[j].deadline = task[j].deadline]_vars

\* A token that the notice probe found after the deadline had passed has
\* made the job fetching.
C31_Witness ==
  \E j \in DOMAIN store :
    /\ task[j].pc = "post"
    /\ IsSome(task[j].probe)
    /\ Val(task[j].probe).late
    /\ Val(task[j].probe).endpoint = "probe_notice"
    /\ store[j].status = "fetching"
    /\ store[j].processedMonths = 1

====
